---- MODULE Spec2Model ----
(***************************************************************************)
(* Model of the offer-click subsystem of the coupon storefront backend     *)
(* (handpicked_backend/controllers/offers.js and the repository helpers it *)
(* calls).  Strings are modelled as sequences of one-character strings so  *)
(* that the regular expressions of the handler are computed, not assumed.  *)
(***************************************************************************)
EXTENDS Integers, Sequences, FiniteSets, TLC

VARIABLES
    now,          \* wall clock, in seconds
    rateCache,    \* global.__offerClickRateCache: LRU entries, least recent first
    windowStart,  \* history: per rate key, when its current counter was created
    admitted,     \* history: per observed rate key, the clicks the limiter let through
    coupons,      \* coupons table: id -> row (click_count is the stored counter)
    merchants,    \* merchants table: id -> row (with the h2/h3 block arrays)
    req,          \* per connection slot: the click request being handled
    audit,        \* per connection slot: state of the detached audit insert
    served,       \* number of click requests received so far
    redirIn,      \* inputs of the redirect computation (pure-function check)
    redirOut,     \* its result
    navIn,        \* inputs of the pagination navigator (pure-function check)
    navOut,       \* its result
    keyIn,        \* two parameter bags given to the cache key builder
    keyOut,       \* their keys
    listCache,    \* the process-wide result cache: key -> entry
    listLog,      \* history: the list requests answered so far, latest last
    storeOrder,   \* the order in which the store returns rows its ORDER BY leaves tied
    subscribeRate,\* global.__subscribeRate: ip -> entry
    subscriptions,\* subscriptions table: email -> row
    subLog        \* the answer to the latest subscribe request, if any

\* the state of the click handler
clickVars == <<now, rateCache, windowStart, admitted, coupons, merchants, req, audit, served,
               redirIn, redirOut>>

\* the state of the public list endpoints and of their helpers
navVars == <<navIn, navOut>>
keyVars == <<keyIn, keyOut>>
listVars == <<listCache, listLog, storeOrder>>
subVars == <<subscribeRate, subscriptions, subLog>>
publicVars == <<navVars, keyVars, listVars, subVars>>

vars == <<now, rateCache, windowStart, admitted, coupons, merchants, req, audit, served,
          redirIn, redirOut, navIn, navOut, keyIn, keyOut, listCache, listLog,
          storeOrder, subscribeRate, subscriptions, subLog>>

----------------------------------------------------------------------------
(* Bounds of the exploration *)

\* concurrent connection slots of the interleaving specification
NSlots == 3
\* requests received in the resolution specification
MaxServed == 1
\* requests received in the burst specification (reaches the 13th on a key)
BurstServed == 14
\* requests received in the timed rate-limiter specification
RateServed == 14
\* requests received in the eviction specification (more keys than the table holds)
EvictServed == 5
\* last instant of the timed specification
MaxTime == 122
\* largest block index used in generated identifiers
MaxIndex == 6
\* capacity of the rate table in the model (the code keeps 50000 keys)
RateCacheMax == 3

\* largest total, limit and page given to the pagination navigator
MaxNavTotal == 6
MaxNavLimit == 3
MaxNavPage == 4

\* list requests answered in the specifications of the list endpoints
MaxListLog == 3
\* list requests answered in the specification that mixes cursors and pages
MaxCursorLog == 2
\* requests of one run of the list endpoints over a failing store
MaxSortLog == 2
AuditServed == 14
FloodServed == 16
MaxFilterLog == 2
MaxDegradeLog == 2
\* requests one address sends to the subscribe endpoint within a window
MaxSubscribeCount == 11
\* largest coupon id an editor publishes while the lists are served
MaxCouponId == 6

(* Program constants *)
MAX_REQUESTS_PER_WINDOW == 12
TTL_SECONDS == 60
\* the lifetime under an environment that sets CACHE_TTL_PUBLIC to half the default
CACHE_TTL_PUBLIC_HALVED == 60 \div 2

CACHE_TTL_PUBLIC == 60
SUBSCRIBE_MAX_REQUESTS_PER_WINDOW == 10   \* MAX_REQUESTS_PER_WINDOW of publicBlogs.js
RATE_LIMIT_WINDOW_MS == 60 * 1000

----------------------------------------------------------------------------
(* Characters and strings *)

NULL == <<"NULL">>          \* JavaScript null / undefined

Digits == {"0", "1", "2", "3", "4", "5", "6", "7", "8", "9"}
HexLetters == {"a", "b", "c", "d", "e", "f", "A", "B", "C", "D", "E", "F"}
UpperSeq == <<"A","B","C","D","E","F","G","H","I","J","K","L","M",
              "N","O","P","Q","R","S","T","U","V","W","X","Y","Z">>
LowerSeq == <<"a","b","c","d","e","f","g","h","i","j","k","l","m",
              "n","o","p","q","r","s","t","u","v","w","x","y","z">>

Lower(c) ==
    IF \E i \in 1..26 : UpperSeq[i] = c
    THEN LowerSeq[CHOOSE i \in 1..26 : UpperSeq[i] = c]
    ELSE c

LowerStr(s) == [i \in 1..Len(s) |-> Lower(s[i])]

Rep(c, n) == [i \in 1..n |-> c]

Drop(s, n) == IF n >= Len(s) THEN <<>> ELSE SubSeq(s, n + 1, Len(s))
Take(s, n) == IF n >= Len(s) THEN s ELSE SubSeq(s, 1, n)

StartsWith(s, p) == Len(s) >= Len(p) /\ SubSeq(s, 1, Len(p)) = p
StartsWithCI(s, p) == Len(s) >= Len(p) /\ LowerStr(SubSeq(s, 1, Len(p))) = p

AllDigits(s) == Len(s) > 0 /\ \A i \in 1..Len(s) : s[i] \in Digits

\* length of the longest prefix of s made of digits (greedy \d+)
DigitPrefixLen(s) ==
    IF \E i \in 1..Len(s) : s[i] \notin Digits
    THEN (CHOOSE i \in 1..Len(s) :
              s[i] \notin Digits /\ \A j \in 1..(i - 1) : s[j] \in Digits) - 1
    ELSE Len(s)

DigitVal(c) == CHOOSE n \in 0..9 : <<"0","1","2","3","4","5","6","7","8","9">>[n + 1] = c

\* Number(<digits>)
RECURSIVE ToNumber(_)
ToNumber(s) ==
    IF Len(s) = 0 THEN 0
    ELSE 10 * ToNumber(SubSeq(s, 1, Len(s) - 1)) + DigitVal(s[Len(s)])

\* decimal rendering of a natural number
RECURSIVE NumStr(_)
NumStr(n) ==
    IF n < 10 THEN << <<"0","1","2","3","4","5","6","7","8","9">>[n + 1] >>
    ELSE NumStr(n \div 10) \o << <<"0","1","2","3","4","5","6","7","8","9">>[(n % 10) + 1] >>

\* String.prototype.trim on blanks
RECURSIVE TrimLeft(_)
TrimLeft(s) == IF Len(s) > 0 /\ s[1] = " " THEN TrimLeft(Drop(s, 1)) ELSE s
RECURSIVE TrimRight(_)
TrimRight(s) ==
    IF Len(s) > 0 /\ s[Len(s)] = " " THEN TrimRight(Take(s, Len(s) - 1)) ELSE s
Trim(s) == TrimRight(TrimLeft(s))

\* the value of `a || b` for strings: "" and null are falsy
Falsy(x) == x = NULL \/ x = <<>>
OrElse(a, b) == IF Falsy(a) THEN b ELSE a

----------------------------------------------------------------------------
(* Sample data of the store *)

HTTP == <<"h","t","t","p",":","/","/">>
HTTPS == <<"h","t","t","p","s",":","/","/">>
FTP == <<"f","t","p",":","/","/">>

UrlA == HTTPS \o <<"a">>
UrlW == HTTPS \o <<"w">>
UrlR == HTTP \o <<"r">>
UrlFtp == FTP \o <<"x">>
UrlRel == <<"/","g","o">>

\* candidate values of a redirect target: null, "", non-http(s), http, https
UrlSamples == {NULL, <<>>, UrlFtp, UrlRel, UrlR, UrlA, UrlW}

Block(h, u) == [heading |-> h, redirect_url |-> u]
NoBlock == Block("none", NULL)

\* merchants rows: aff_url, web_url, coupon_h2_blocks, coupon_h3_blocks
\* (a null block array behaves as [] everywhere it is read: `x || []`)
MerchantsInit ==
    (42 :> [aff_url |-> UrlA, web_url |-> UrlW,
            coupon_h2_blocks |-> <<Block("a0", NULL), Block("a1", UrlR)>>,
            coupon_h3_blocks |-> <<Block("b0", UrlFtp), Block("b1", NULL),
                                   Block("b2", UrlA)>>])
    @@ (7 :> [aff_url |-> UrlFtp, web_url |-> UrlW,
              coupon_h2_blocks |-> <<>>,
              coupon_h3_blocks |-> <<Block("c0", NULL)>>])
    @@ (9 :> [aff_url |-> NULL, web_url |-> NULL,
              coupon_h2_blocks |-> <<>>,
              coupon_h3_blocks |-> <<>>])

CodeSave == <<"S","A","V","E">>

\* coupons rows; merchant_id 0 stands for a null foreign key
CouponsInit ==
    (1 :> [click_count |-> 5, coupon_type |-> "coupon", coupon_code |-> CodeSave,
           merchant_id |-> 42])
    @@ (7 :> [click_count |-> 0, coupon_type |-> "deal", coupon_code |-> CodeSave,
              merchant_id |-> 7])
    @@ (3 :> [click_count |-> 2, coupon_type |-> "coupon", coupon_code |-> <<>>,
              merchant_id |-> 0])

----------------------------------------------------------------------------
(* Identifiers sent to the click endpoint, generated from their grammar *)

Dash == <<"-">>
TRENDING == <<"t","r","e","n","d","i","n","g">>
MERCHANT == <<"m","e","r","c","h","a","n","t">>

TrendingId(m, k) == TRENDING \o Dash \o NumStr(m) \o Dash \o NumStr(k)
BlockId(kind, m, i) == kind \o Dash \o NumStr(m) \o Dash \o NumStr(i)
LegacyBlockId(m, n, i) ==
    MERCHANT \o Dash \o NumStr(m) \o Dash \o <<"h">> \o NumStr(n) \o Dash \o NumStr(i)

H2 == <<"h","2">>
H3 == <<"h","3">>

\* merchant ids used in identifiers: three stored merchants and a missing one
MerchantIds == {42, 7, 9, 99}
Indexes == 0..MaxIndex

DigitIds == {NumStr(n) : n \in {1, 3, 5, 7, 9, 42}} \cup {<<"0","4","2">>}
UuidIds ==
    { Rep("a", 8) \o Dash \o Rep("0", 4) \o Dash \o Rep("4", 4) \o Dash
        \o Rep("B", 4) \o Dash \o Rep("f", 12) }
TrendingIds == {TrendingId(m, k) : m \in MerchantIds, k \in Indexes}
BlockIds == {BlockId(kind, m, i) : kind \in {H2, H3}, m \in MerchantIds, i \in Indexes}
LegacyIds ==
    {LegacyBlockId(m, n, i) : m \in {42}, n \in {2, 3}, i \in {0, 2}}
    \cup { MERCHANT \o <<":">> \o NumStr(7),
           NumStr(42) \o <<":","h","3","1">>,
           <<"M","e","r","c","h","a","n","t","-","4","2">> }
UpperCaseIds ==
    { <<"H","3","-","4","2","-","1">>,
      <<"T","R","E","N","D","I","N","G","-","7","-","1">> }
\* strings no pattern accepts
OtherIds ==
    { <<"x","y","z">>,
      <<"h","4","-","4","2","-","0">>,
      <<"h","2","-","4","2">>,
      <<"t","r","e","n","d","i","n","g","-","4","2","-","x">>,
      <<"h","2","-","4","2","-","0","-","1">>,
      Rep("a", 8) \o Dash \o Rep("0", 4),
      <<"4","2","-","h","5","-","0">> }
BlankIds == { <<>>, <<" ">> }
PaddedIds == { <<" ","h","2","-","4","2","-","1"," ">> }

OfferIds == DigitIds \cup UuidIds \cup TrendingIds \cup BlockIds \cup LegacyIds
            \cup UpperCaseIds \cup OtherIds \cup BlankIds \cup PaddedIds

ClientIp == <<"1",".","2",".","3",".","4">>

----------------------------------------------------------------------------
(* isLikelyCouponId *)

IsHex(c) == c \in Digits \/ c \in HexLetters

IsUuidShape(id) ==
    /\ Len(id) = 36
    /\ \A i \in 1..36 :
          IF i \in {9, 14, 19, 24} THEN id[i] = "-" ELSE IsHex(id[i])

\* variant: every non-empty identifier is taken for a coupon key
isLikelyCouponIdAny(id) == Len(id) > 0

isLikelyCouponId(id) ==
    IF Len(id) = 0 THEN FALSE
    ELSE IF AllDigits(id) THEN TRUE
    ELSE IF IsUuidShape(id) THEN TRUE
    ELSE FALSE

----------------------------------------------------------------------------
(* Composite identifier parsing *)

NoParse == [type |-> "none", kind |-> "none", merchantId |-> <<>>, index |-> -1]

\* the fields of s separated by "-" (used for patterns whose only "-" are separators)
RECURSIVE SplitDash(_)
SplitDash(s) ==
    IF \E i \in 1..Len(s) : s[i] = "-"
    THEN LET i == CHOOSE i \in 1..Len(s) :
                      s[i] = "-" /\ \A j \in 1..(i - 1) : s[j] # "-"
         IN  <<Take(s, i - 1)>> \o SplitDash(Drop(s, i))
    ELSE <<s>>

\* /^trending-(\d+)-(\d+)$/i
trendingMatch(id) ==
    LET f == SplitDash(id) IN
    IF Len(f) = 3 /\ LowerStr(f[1]) = TRENDING /\ AllDigits(f[2]) /\ AllDigits(f[3])
    THEN [type |-> "trending", kind |-> "none", merchantId |-> f[2],
          index |-> ToNumber(f[3])]
    ELSE NoParse

\* /^(h[23])-(\d+)-(\d+)$/i
prefixMatch(id) ==
    LET f == SplitDash(id) IN
    IF Len(f) = 3 /\ LowerStr(f[1]) \in {H2, H3} /\ AllDigits(f[2]) /\ AllDigits(f[3])
    THEN [type |-> "block", kind |-> IF LowerStr(f[1]) = H2 THEN "h2" ELSE "h3",
          merchantId |-> f[2], index |-> ToNumber(f[3])]
    ELSE NoParse

Seps == {":", "-"}

\* /^(?:merchant[:\-])?(\d+)(?:[:\-]h([23])[:\-]?(\d+))?$/i
legacyMatch(id) ==
    LET s1 == IF StartsWithCI(id, MERCHANT) /\ Len(id) > 8 /\ id[9] \in Seps
              THEN Drop(id, 9) ELSE id
        n == DigitPrefixLen(s1)
        mid == Take(s1, n)
        rest == Drop(s1, n)
        tail == Drop(rest, 3)
        idx == IF Len(tail) > 0 /\ tail[1] \in Seps THEN Drop(tail, 1) ELSE tail
    IN  IF n = 0 THEN NoParse
        ELSE IF Len(rest) = 0
        THEN [type |-> "merchant", kind |-> "none", merchantId |-> mid, index |-> -1]
        ELSE IF /\ Len(rest) >= 4
                /\ rest[1] \in Seps
                /\ Lower(rest[2]) = "h"
                /\ rest[3] \in {"2", "3"}
                /\ AllDigits(idx)
        THEN [type |-> "block", kind |-> IF rest[3] = "2" THEN "h2" ELSE "h3",
              merchantId |-> mid, index |-> ToNumber(idx)]
        ELSE NoParse

\* the cascade of lines 92-122: the patterns tried, in order, and the first match
ParseOfferId(id) ==
    IF trendingMatch(id).type # "none"
    THEN [parsed |-> trendingMatch(id), tried |-> <<"trending">>]
    ELSE IF prefixMatch(id).type # "none"
    THEN [parsed |-> prefixMatch(id), tried |-> <<"trending", "prefix">>]
    ELSE [parsed |-> legacyMatch(id), tried |-> <<"trending", "prefix", "legacy">>]

----------------------------------------------------------------------------
(* The LRU rate table: new LRUCache({ max, ttl }) with get and set.  The     *)
(* options the code leaves at their defaults decide the behaviour: get does *)
(* not restart an entry's ttl, drops a stale entry and returns undefined;   *)
(* set restarts the ttl of the entry it writes, new or not.                 *)

RateKey(ip, offerId) == ip \o <<":">> \o offerId

HasKey(cache, key) == \E i \in 1..Len(cache) : cache[i].key = key
IndexOf(cache, key) == CHOOSE i \in 1..Len(cache) : cache[i].key = key
Without(cache, i) == SubSeq(cache, 1, i - 1) \o SubSeq(cache, i + 1, Len(cache))

\* an entry is stale once more than ttl has passed since its start
IsStale(e, t) == t - e.start > TTL_SECONDS

\* whether get(key) finds a live entry
RateLive(cache, key, t) == HasKey(cache, key) /\ ~IsStale(cache[IndexOf(cache, key)], t)

\* the value get(key) returns (0 for undefined)
RateGetValue(cache, key, t) ==
    IF RateLive(cache, key, t) THEN cache[IndexOf(cache, key)].value ELSE 0

\* the table after get(key): a stale entry is deleted, a live one becomes most recent
RateAfterGet(cache, key, t) ==
    IF ~HasKey(cache, key) THEN cache
    ELSE LET i == IndexOf(cache, key) IN
         IF IsStale(cache[i], t) THEN Without(cache, i)
         ELSE Append(Without(cache, i), cache[i])

\* a table without a capacity: set never evicts
RateSetUnbounded(cache, key, v, t) ==
    LET e == [key |-> key, value |-> v, start |-> t] IN
    IF HasKey(cache, key) THEN Append(Without(cache, IndexOf(cache, key)), e)
    ELSE Append(cache, e)

\* the table after set(key, v): the entry becomes most recent and its ttl restarts;
\* a new key evicts the least recently used entry of a full table
RateSet(cache, key, v, t) ==
    LET e == [key |-> key, value |-> v, start |-> t] IN
    IF HasKey(cache, key) THEN Append(Without(cache, IndexOf(cache, key)), e)
    ELSE IF Len(cache) >= RateCacheMax THEN Append(Drop(cache, 1), e)
    ELSE Append(cache, e)

----------------------------------------------------------------------------
(* Pure parts of the click handler *)

At(arr, i0) == IF i0 + 1 \in 1..Len(arr) THEN arr[i0 + 1] ELSE NoBlock

Max(a, b) == IF a >= b THEN a ELSE b

\* variant: the 1-based index used as if it were 0-based
TrendingIdx0Unshifted(index1) == index1

\* lines 150-156: Math.max(0, Number(parsed.index1 || 1) - 1)
TrendingIdx0(index1) == Max(0, (IF index1 = 0 THEN 1 ELSE index1) - 1)

\* a selection that, for a plain merchant id, looks at the h3 blocks first
ChooseBlockH3First(parsed, store) ==
    IF parsed.type = "trending"
    THEN At(store.coupon_h2_blocks \o store.coupon_h3_blocks, TrendingIdx0(parsed.index))
    ELSE IF parsed.type = "block"
    THEN At(IF parsed.kind = "h2" THEN store.coupon_h2_blocks
            ELSE store.coupon_h3_blocks, parsed.index)
    ELSE IF Len(store.coupon_h3_blocks) > 0 THEN store.coupon_h3_blocks[1]
    ELSE IF Len(store.coupon_h2_blocks) > 0 THEN store.coupon_h2_blocks[1]
    ELSE NoBlock

\* lines 148-170: the block an identifier addresses in a merchant row
ChooseBlock(parsed, store) ==
    IF parsed.type = "trending"
    THEN At(store.coupon_h2_blocks \o store.coupon_h3_blocks, TrendingIdx0(parsed.index))
    ELSE IF parsed.type = "block"
    THEN At(IF parsed.kind = "h2" THEN store.coupon_h2_blocks
            ELSE store.coupon_h3_blocks, parsed.index)
    ELSE IF Len(store.coupon_h2_blocks) > 0 THEN store.coupon_h2_blocks[1]
    ELSE IF Len(store.coupon_h3_blocks) > 0 THEN store.coupon_h3_blocks[1]
    ELSE NoBlock

IsHttpUrl(u) == StartsWith(u, HTTP) \/ StartsWith(u, HTTPS)

\* lines 226-237: the redirect target of a resolved offer
PickRedirect(serverRedirect, aff, web) ==
    LET pick == OrElse(OrElse(OrElse(serverRedirect, aff), web), NULL) IN
    IF ~Falsy(pick) /\ IsHttpUrl(pick) THEN pick ELSE NULL

\* variant: block offers are counted too
ShouldIncrementAlways(source) == TRUE

\* line 242: only offers of the coupons table are counted
ShouldIncrement(source) == source = "coupon"

----------------------------------------------------------------------------
(* Requests *)

IdleReq ==
    [pc |-> "idle", offerId |-> <<>>, ip |-> <<>>, lookup |-> "none",
     tried |-> <<>>, parsed |-> NoParse, fetched |-> FALSE, source |-> "none",
     block |-> NoBlock, code |-> NULL, merchant_id |-> 0, redirect |-> NULL,
     storeError |-> FALSE, increment |-> "none", status |-> 0, message |-> ""]

Respond(rec, st, msg) == [rec EXCEPT !.pc = "done", !.status = st, !.message = msg]

\* lines 85-124 and 221-223: no canonical offer, so try the composite patterns;
\* a match leads to the merchant fetch, no match to 404
ParseStage(rec) ==
    LET p == ParseOfferId(rec.offerId) IN
    IF p.parsed.type # "none" /\ Len(p.parsed.merchantId) > 0
    THEN [rec EXCEPT !.tried = p.tried, !.parsed = p.parsed,
                     !.pc = "fetchStore", !.fetched = TRUE]
    ELSE Respond([rec EXCEPT !.tried = p.tried, !.parsed = p.parsed],
                 404, "Offer not found")

\* lines 225-249: redirect of the resolved offer, then the conditional increment
Resolved(rec, serverRedirect, aff, web) ==
    LET r1 == [rec EXCEPT !.redirect = PickRedirect(serverRedirect, aff, web)] IN
    IF ShouldIncrement(rec.source) THEN [r1 EXCEPT !.pc = "increment"]
    ELSE Respond(r1, 200, "Click recorded")

\* an audit insert started with every answer, whatever its status
AuditAfterAnswer(rec, old) == IF rec.pc = "done" THEN "pending" ELSE old

\* lines 251-268: the audit insert is started when the answer is 200
AuditAfter(rec, old) == IF rec.pc = "done" /\ rec.status = 200 THEN "pending" ELSE old

----------------------------------------------------------------------------
(* The click handler, one action per synchronous stretch between awaits *)

\* lines 33-124: a request arrives on slot r with raw identifier `raw`; the
\* client address of lines 40-50 is the one address ClientIp.  A slot takes a
\* new request once it has answered and its audit insert has settled.
Arrive(r, raw, budget) ==
    /\ req[r].pc \in {"idle", "done"}
    /\ audit[r] # "pending"
    /\ served < budget
    /\ served' = served + 1
    /\ LET offerId == Trim(raw)
           key == RateKey(ClientIp, offerId)
           cur == RateGetValue(rateCache, key, now) + 1
           rec == [IdleReq EXCEPT !.offerId = offerId, !.ip = ClientIp]
       IN  IF Len(offerId) = 0
           THEN /\ req' = [req EXCEPT ![r] = Respond(rec, 400, "Invalid offer id")]
                /\ UNCHANGED <<rateCache, windowStart, admitted>>
           ELSE /\ rateCache' = RateSet(RateAfterGet(rateCache, key, now), key, cur, now)
                /\ windowStart' =
                      IF RateLive(rateCache, key, now) THEN windowStart
                      ELSE [k \in DOMAIN windowStart \cup {key} |->
                               IF k = key THEN now ELSE windowStart[k]]
                /\ admitted' =
                      IF key \in DOMAIN admitted /\ ~(cur > MAX_REQUESTS_PER_WINDOW)
                      THEN [admitted EXCEPT ![key] = @ + 1]
                      ELSE admitted
                /\ req' = [req EXCEPT ![r] =
                      IF cur > MAX_REQUESTS_PER_WINDOW
                      THEN Respond(rec, 429, "Too many requests, please try again later")
                      ELSE IF isLikelyCouponId(offerId)
                      THEN [rec EXCEPT !.pc = "getById"]
                      ELSE ParseStage(rec)]
    /\ audit' = [audit EXCEPT ![r] = "none"]
    /\ UNCHANGED <<now, coupons, merchants, redirIn, redirOut>>
    /\ UNCHANGED publicVars

\* the coupons row CouponsRepo.getById selects for an identifier
CouponRowExists(offerId) == AllDigits(offerId) /\ ToNumber(offerId) \in DOMAIN coupons

\* lines 72-73, then 221-243: CouponsRepo.getById returned (a row or null)
GetByIdReturns(r) ==
    /\ req[r].pc = "getById"
    /\ LET rec == req[r] IN
       IF CouponRowExists(rec.offerId)
       THEN LET row == coupons[ToNumber(rec.offerId)]
                hasMerchant == row.merchant_id \in DOMAIN merchants
                offer == [rec EXCEPT
                            !.lookup = "hit", !.source = "coupon",
                            !.code = IF row.coupon_type = "coupon"
                                     THEN OrElse(row.coupon_code, NULL) ELSE NULL,
                            !.merchant_id = row.merchant_id]
            IN  req' = [req EXCEPT ![r] =
                    Resolved(offer, NULL,
                             IF hasMerchant THEN merchants[row.merchant_id].aff_url ELSE NULL,
                             IF hasMerchant THEN merchants[row.merchant_id].web_url ELSE NULL)]
       ELSE req' = [req EXCEPT ![r] = ParseStage([rec EXCEPT !.lookup = "miss"])]
    /\ audit' = [audit EXCEPT ![r] = AuditAfter(req'[r], audit[r])]
    /\ UNCHANGED <<now, rateCache, windowStart, admitted, coupons, merchants, served,
                   redirIn, redirOut>>
    /\ UNCHANGED publicVars

\* variant: the lookup error reaches the outer catch (lines 279-284)
GetByIdThrowsPropagates(r) ==
    /\ req[r].pc = "getById"
    /\ req' = [req EXCEPT ![r] =
                  Respond([req[r] EXCEPT !.lookup = "error"], 500, "Failed to record click")]
    /\ UNCHANGED <<now, rateCache, windowStart, admitted, coupons, merchants, audit, served,
                   redirIn, redirOut>>
    /\ UNCHANGED publicVars

\* lines 74-82: CouponsRepo.getById threw; the handler logs and falls through
GetByIdThrows(r) ==
    /\ req[r].pc = "getById"
    /\ req' = [req EXCEPT ![r] = ParseStage([req[r] EXCEPT !.lookup = "error"])]
    /\ UNCHANGED <<now, rateCache, windowStart, admitted, coupons, merchants, audit, served,
                   redirIn, redirOut>>
    /\ UNCHANGED publicVars

\* lines 136-223 and 225-278: the merchants query returned (a row or null)
FetchStoreReturns(r) ==
    /\ req[r].pc = "fetchStore"
    /\ LET rec == req[r]
           mid == ToNumber(rec.parsed.merchantId)
       IN  IF mid \in DOMAIN merchants
              /\ ChooseBlock(rec.parsed, merchants[mid]) # NoBlock
           THEN LET store == merchants[mid]
                    chosen == ChooseBlock(rec.parsed, store)
                    offer == [rec EXCEPT !.source = "merchant-block",
                                         !.block = chosen, !.code = NULL,
                                         !.merchant_id = mid]
                IN  req' = [req EXCEPT ![r] =
                        Resolved(offer, chosen.redirect_url, store.aff_url, store.web_url)]
           ELSE req' = [req EXCEPT ![r] = Respond(rec, 404, "Offer not found")]
    /\ audit' = [audit EXCEPT ![r] = AuditAfter(req'[r], audit[r])]
    /\ UNCHANGED <<now, rateCache, windowStart, admitted, coupons, merchants, served,
                   redirIn, redirOut>>
    /\ UNCHANGED publicVars

\* line 144: the merchants query reported an error, so no store and 404
FetchStoreFails(r) ==
    /\ req[r].pc = "fetchStore"
    /\ req' = [req EXCEPT ![r] =
                  Respond([req[r] EXCEPT !.storeError = TRUE], 404, "Offer not found")]
    /\ UNCHANGED <<now, rateCache, windowStart, admitted, coupons, merchants, audit, served,
                   redirIn, redirOut>>
    /\ UNCHANGED publicVars

\* the store-side effect of rpc("increment_coupon_click_count", { p_id })
RpcIncrement(table, offerId) ==
    IF AllDigits(offerId) /\ ToNumber(offerId) \in DOMAIN table
    THEN [table EXCEPT ![ToNumber(offerId)].click_count = @ + 1]
    ELSE table

\* lines 243 and 251-278: incrementClickCount returned
IncrementReturns(r) ==
    /\ req[r].pc = "increment"
    /\ coupons' = RpcIncrement(coupons, req[r].offerId)
    /\ req' = [req EXCEPT ![r] =
                  Respond([req[r] EXCEPT !.increment = "ok"], 200, "Click recorded")]
    /\ audit' = [audit EXCEPT ![r] = "pending"]
    /\ UNCHANGED <<now, rateCache, windowStart, admitted, merchants, served, redirIn, redirOut>>
    /\ UNCHANGED publicVars

\* lines 247-249 and 251-278: incrementClickCount threw; logged, the answer goes on
IncrementThrows(r) ==
    /\ req[r].pc = "increment"
    /\ req' = [req EXCEPT ![r] =
                  Respond([req[r] EXCEPT !.increment = "failed"], 200, "Click recorded")]
    /\ audit' = [audit EXCEPT ![r] = "pending"]
    /\ UNCHANGED <<now, rateCache, windowStart, admitted, coupons, merchants, served,
                   redirIn, redirOut>>
    /\ UNCHANGED publicVars

\* lines 252-264: the detached offer_clicks insert completed
AuditWritten(r) ==
    /\ audit[r] = "pending"
    /\ audit' = [audit EXCEPT ![r] = "written"]
    /\ UNCHANGED <<now, rateCache, windowStart, admitted, coupons, merchants, req, served,
                   redirIn, redirOut>>
    /\ UNCHANGED publicVars

\* variant: the failure of the insert replaces the answer
AuditFailsSurfaced(r) ==
    /\ audit[r] = "pending"
    /\ audit' = [audit EXCEPT ![r] = "failed"]
    /\ req' = [req EXCEPT ![r] = Respond(req[r], 500, "Failed to record click")]
    /\ UNCHANGED <<now, rateCache, windowStart, admitted, coupons, merchants, served,
                   redirIn, redirOut>>
    /\ UNCHANGED publicVars

\* lines 265-267: the detached insert failed; logged inside the detached task
AuditFails(r) ==
    /\ audit[r] = "pending"
    /\ audit' = [audit EXCEPT ![r] = "failed"]
    /\ UNCHANGED <<now, rateCache, windowStart, admitted, coupons, merchants, req, served,
                   redirIn, redirOut>>
    /\ UNCHANGED publicVars

\* the instants, in seconds, at which the timed specification lets requests arrive
Instants == {0, 1, 30, 59, 60, 61, 62, 90, 120, 121, MaxTime}

\* the clock advances to a later instant
Tick ==
    /\ \E t \in Instants : t > now /\ now' = t
    /\ UNCHANGED <<rateCache, windowStart, admitted, coupons, merchants, req, audit, served,
                   redirIn, redirOut>>
    /\ UNCHANGED publicVars

\* lines 226-237 applied to one triple of candidates
ApplyRedirect ==
    /\ redirOut = <<"pending">>
    /\ redirOut' = PickRedirect(redirIn[1], redirIn[2], redirIn[3])
    /\ UNCHANGED <<now, rateCache, windowStart, admitted, coupons, merchants, req, audit,
                   served, redirIn>>
    /\ UNCHANGED publicVars

----------------------------------------------------------------------------
(* Pagination navigator (utils/pagination.js) *)

SLASH == <<"/">>
API_PREFIX == <<"/","a","p","i">>
PUBLIC_PREFIX == <<"/","p","u","b","l","i","c">>
DOT_JSON == <<".","j","s","o","n">>

\* s.split(c)[0]
BeforeChar(s, c) ==
    IF \E i \in 1..Len(s) : s[i] = c
    THEN Take(s, (CHOOSE i \in 1..Len(s) :
                      s[i] = c /\ \A j \in 1..(i - 1) : s[j] # c) - 1)
    ELSE s

\* length matched at the start of s by (\/v?\d+)?
VersionLen(s) ==
    LET afterSlash == Drop(s, 1)
        afterV == IF Len(afterSlash) > 0 /\ afterSlash[1] = "v"
                  THEN Drop(afterSlash, 1) ELSE afterSlash
        d == DigitPrefixLen(afterV)
    IN  IF Len(s) > 0 /\ s[1] = "/" /\ d > 0
        THEN 1 + (Len(afterSlash) - Len(afterV)) + d
        ELSE 0

\* length matched at the start of s by /^\/(api|public)(\/v?\d+)?/, 0 without a match
ApiPrefixLen(s) ==
    IF StartsWith(s, API_PREFIX) THEN 4 + VersionLen(Drop(s, 4))
    ELSE IF StartsWith(s, PUBLIC_PREFIX) THEN 7 + VersionLen(Drop(s, 7))
    ELSE 0

\* p.replace(/^(\/(api|public)(\/v?\d+)?)+/, "")
RECURSIVE StripApiPrefixes(_)
StripApiPrefixes(s) ==
    IF ApiPrefixLen(s) = 0 THEN s ELSE StripApiPrefixes(Drop(s, ApiPrefixLen(s)))

\* p.replace(/\.json$/i, "")
StripJson(s) ==
    IF Len(s) >= 5 /\ LowerStr(SubSeq(s, Len(s) - 4, Len(s))) = DOT_JSON
    THEN Take(s, Len(s) - 5) ELSE s

\* p.replace(/\/+$/, "")
RECURSIVE StripTrailingSlashes(_)
StripTrailingSlashes(s) ==
    IF Len(s) > 0 /\ s[Len(s)] = "/"
    THEN StripTrailingSlashes(Take(s, Len(s) - 1)) ELSE s

normalizePathToFrontend(rawPath, fallback) ==
    IF Falsy(rawPath) THEN fallback
    ELSE LET p1 == BeforeChar(Trim(rawPath), "?")
             p2 == Drop(p1, ApiPrefixLen(p1))
             p3 == StripApiPrefixes(p2)
             p4 == StripJson(p3)
             p5 == IF StartsWith(p4, SLASH) THEN p4 ELSE SLASH \o p4
             p6 == IF p5 # SLASH THEN StripTrailingSlashes(p5) ELSE p5
         IN  OrElse(p6, fallback)

\* characters the URLSearchParams serializer leaves as they are
FormSafe(c) ==
    \/ c \in Digits
    \/ \E i \in 1..26 : UpperSeq[i] = c \/ LowerSeq[i] = c
    \/ c \in {"*", "-", ".", "_"}

\* percent escapes of the other characters used in the samples
PercentOf(c) ==
    CASE c = "/" -> <<"%","2","F">>
      [] c = "?" -> <<"%","3","F">>
      [] c = "&" -> <<"%","2","6">>
      [] c = "=" -> <<"%","3","D">>
      [] c = "|" -> <<"%","7","C">>
      [] c = "%" -> <<"%","2","5">>
      [] c = ":" -> <<"%","3","A">>
      [] c = " " -> <<"%","2","0">>
      [] OTHER -> <<"%","3","F","3","F">>

\* application/x-www-form-urlencoded serialization of a string
RECURSIVE FormEncode(_)
FormEncode(s) ==
    IF Len(s) = 0 THEN <<>>
    ELSE (IF FormSafe(s[1]) THEN <<s[1]>>
          ELSE IF s[1] = " " THEN <<"+">>
          ELSE PercentOf(s[1])) \o FormEncode(Drop(s, 1))

\* obj[k] = v on an object kept as the sequence of its own properties
SetParam(params, k, v) ==
    IF \E i \in 1..Len(params) : params[i].k = k
    THEN [i \in 1..Len(params) |->
             IF params[i].k = k THEN [k |-> k, v |-> v] ELSE params[i]]
    ELSE Append(params, [k |-> k, v |-> v])

\* the name=value pairs URLSearchParams holds after the forEach of buildQueryString
RECURSIVE QueryPairs(_)
QueryPairs(params) ==
    IF Len(params) = 0 THEN <<>>
    ELSE LET e == params[1]
             rest == QueryPairs(Drop(params, 1))
         IN  IF Falsy(e.v) THEN rest
             ELSE <<e.k \o <<"=">> \o FormEncode(e.v)>> \o rest

RECURSIVE JoinWith(_, _)
JoinWith(parts, sep) ==
    IF Len(parts) = 0 THEN <<>>
    ELSE IF Len(parts) = 1 THEN parts[1]
    ELSE parts[1] \o sep \o JoinWith(Drop(parts, 1), sep)

buildQueryString(paramsObj) ==
    LET qs == JoinWith(QueryPairs(paramsObj), <<"&">>)
    IN  IF Len(qs) = 0 THEN <<>> ELSE <<"?">> \o qs

\* Math.ceil(a / b) on naturals, b > 0
CeilDiv(a, b) == (a + b - 1) \div b

\* Number(x) || d on a natural number
NumberOr(x, d) == IF x = 0 THEN d ELSE x

\* a page count that rounds down
totalPagesFloor(total, limit) ==
    Max(NumberOr(total, 0) \div NumberOr(limit, 1), 1)

totalPages(total, limit) ==
    Max(CeilDiv(NumberOr(total, 0), NumberOr(limit, 1)), 1)

\* (process.env.X || "").toString().trim().replace(/\/+$/, "")
EnvOrigin(x) == StripTrailingSlashes(Trim(OrElse(x, <<>>)))

PAGE_KEY == <<"p","a","g","e">>
LIMIT_KEY == <<"l","i","m","i","t">>

\* in is [path, page, limit, total, extraParams] with the three environment
\* settings PUBLIC_API_BASE_URL (api), PUBLIC_SITE_URL (site), PUBLIC_BASE_PATH (base)
makeRelUrl(in, targetPage) ==
    LET frontendPath == normalizePathToFrontend(in.path, SLASH)
        backendOrigin == EnvOrigin(in.api)
        p1 == IF targetPage > 1
              THEN SetParam(in.extraParams, PAGE_KEY, NumStr(targetPage))
              ELSE in.extraParams
        p2 == IF in.limit # 0 /\ in.limit # 20
              THEN SetParam(p1, LIMIT_KEY, NumStr(in.limit)) ELSE p1
        rel == frontendPath \o buildQueryString(p2)
    IN  IF Len(backendOrigin) > 0 THEN backendOrigin \o rel ELSE rel

maybeAbsolute(in, rel) ==
    LET canonicalOrigin == EnvOrigin(in.site)
        basePath == EnvOrigin(in.base)
    IN  IF Falsy(rel) THEN NULL
        ELSE IF Len(canonicalOrigin) > 0 THEN canonicalOrigin \o basePath \o rel
        ELSE rel

\* the link of a target page, 0 standing for null
NavLink(in, target) ==
    IF target = 0 THEN NULL
    ELSE IF Len(EnvOrigin(in.api)) > 0 THEN makeRelUrl(in, target)
    ELSE maybeAbsolute(in, makeRelUrl(in, target))

buildPrevNext(in) ==
    LET tp == totalPages(in.total, in.limit)
        prevPage == IF in.page > 1 THEN in.page - 1 ELSE 0
        nextPage == IF in.page < tp THEN in.page + 1 ELSE 0
    IN  [prev |-> NavLink(in, prevPage),
         next |-> NavLink(in, nextPage),
         totalPages |-> tp]

\* request paths, environment settings and extra parameters given to the navigator
NavPaths ==
    { <<>>,
      <<"/","p","u","b","l","i","c","/","v","1","/","c","o","u","p","o","n","s","?","t","=","a">>,
      <<"/","a","p","i","/","s","t","o","r","e","s",".","J","S","O","N">>,
      <<"/","b","l","o","g","s","/">> }
NavOrigins == { <<>>, HTTPS \o <<"a","p","i",".","x","/">> }
NavSites == { NULL, HTTPS \o <<"s","i","t","e",".","x">> }
NavBases == { <<>>, <<"/","b","a","s","e","/">> }
NavExtras ==
    { <<>>,
      << [k |-> <<"q">>, v |-> <<"a"," ","b","&","c">>],
         [k |-> <<"s","t","o","r","e">>, v |-> NULL],
         [k |-> <<"s","o","r","t">>, v |-> <<"l","a","t","e","s","t">>] >> }

NavInputs ==
    [path : NavPaths, page : 1..MaxNavPage, limit : (0..MaxNavLimit) \cup {20},
     total : 0..MaxNavTotal, extraParams : NavExtras,
     api : NavOrigins, site : NavSites, base : NavBases]

\* no result yet (a computed page count is at least 1)
NavPending == [prev |-> NULL, next |-> NULL, totalPages |-> 0]

NavIdle == navIn = NULL /\ navOut = NavPending

\* buildPrevNext applied to one input
ApplyNav ==
    /\ navOut = NavPending
    /\ navOut' = buildPrevNext(navIn)
    /\ UNCHANGED <<navIn, clickVars, keyVars, listVars, subVars>>


----------------------------------------------------------------------------
(* Cache key builder (utils/cacheKey.js) *)

PENDING == <<"pending">>    \* a result not computed yet
ABSENT == <<"ABSENT">>      \* the value of a property an object does not have

\* the field names, in the order the builder writes them
ordered ==
    <<"page", "limit", "q", "category", "categorySlug", "type", "sort", "locale",
      "status">>

\* the characters of a field name
NameOf(k) ==
    CASE k = "page" -> <<"p","a","g","e">>
      [] k = "limit" -> <<"l","i","m","i","t">>
      [] k = "q" -> <<"q">>
      [] k = "category" -> <<"c","a","t","e","g","o","r","y">>
      [] k = "categorySlug" -> <<"c","a","t","e","g","o","r","y","S","l","u","g">>
      [] k = "type" -> <<"t","y","p","e">>
      [] k = "sort" -> <<"s","o","r","t">>
      [] k = "locale" -> <<"l","o","c","a","l","e">>
      [] k = "status" -> <<"s","t","a","t","u","s">>

\* a parameter bag is the sequence of its properties in insertion order
In(k, params) == \E i \in 1..Len(params) : params[i].k = k
Get(params, k) == params[CHOOSE i \in 1..Len(params) : params[i].k = k].v

\* String(Number.parseInt(v, 10) || 0) for a value given by its string
ParseIntOr0(v) ==
    IF v = NULL THEN <<"0">>
    ELSE LET t == TrimLeft(v)
             signed == Len(t) > 0 /\ t[1] \in {"-", "+"}
             body == IF signed THEN Drop(t, 1) ELSE t
             d == DigitPrefixLen(body)
             n == IF d = 0 THEN 0 ELSE ToNumber(SubSeq(body, 1, d))
         IN  IF n = 0 THEN <<"0">>
             ELSE (IF signed /\ t[1] = "-" THEN <<"-">> ELSE <<>>) \o NumStr(n)

\* characters encodeURIComponent leaves as they are
UriSafe(c) ==
    \/ c \in Digits
    \/ \E i \in 1..26 : UpperSeq[i] = c \/ LowerSeq[i] = c
    \/ c \in {"-", "_", ".", "!", "~", "*", "'", "(", ")"}

\* an encoder that escapes nothing
encodeURIComponentNone(s) == s

RECURSIVE encodeURIComponent(_)
encodeURIComponent(s) ==
    IF Len(s) = 0 THEN <<>>
    ELSE (IF UriSafe(s[1]) THEN <<s[1]>> ELSE PercentOf(s[1]))
         \o encodeURIComponent(Drop(s, 1))

\* the part written for field k (lines 17-22)
KeyPart(params, k) ==
    IF In(k, params)
    THEN LET v0 == Get(params, k)
             v == IF k \in {"page", "limit"} THEN ParseIntOr0(v0) ELSE v0
         IN  NameOf(k) \o <<"=">> \o encodeURIComponent(IF v = NULL THEN <<>> ELSE v)
    ELSE NameOf(k) \o <<"=">>

makeListCacheKey(prefix, params) ==
    JoinWith(<<prefix>> \o [i \in 1..Len(ordered) |-> KeyPart(params, ordered[i])],
             <<"|">>)

COUPONS == <<"c","o","u","p","o","n","s">>

\* values of the fields: a number is given by its string; null and undefined are NULL
PageVals == {<<"1">>, <<"2">>, <<"2","x">>}
LimitVals == {<<"2","0">>, <<"x">>}
QVals == {<<>>, NULL, <<"a">>, <<"a","|","c","a","t","e","g","o","r","y","=","b">>}
CategoryVals == {<<>>, <<"b","|","c","a","t","e","g","o","r","y","=">>}
TypeVals == {<<>>, <<"a","l","l">>}
SortVals == {<<"l","a","t","e","s","t">>, <<"e","n","d","i","n","g">>}
LocaleVals == {<<>>, <<"e","n">>}
StatusVals == {ABSENT, <<>>, <<"a","c","t","i","v","e">>}

\* the bags of a first request: page, q, category and status vary
KeyFields ==
    [page : PageVals, limit : {<<"2","0">>}, q : QVals, category : CategoryVals,
     type : {<<"a","l","l">>}, sort : {<<"l","a","t","e","s","t">>},
     locale : {<<"e","n">>}, status : StatusVals]

\* the order in which the controllers write the properties, and another one
ControllerOrder ==
    <<"page", "limit", "q", "category", "sort", "locale", "type", "status">>
ReverseOrder ==
    <<"status", "type", "locale", "sort", "category", "q", "limit", "page">>

\* the object literal with the fields of f written in the given order
BagOf(f, order) ==
    SelectSeq([i \in 1..Len(order) |-> [k |-> order[i], v |-> f[order[i]]]],
              LAMBDA e : e.v # ABSENT)

\* f with at most one field changed, or with q and category both changed
KeyVariants(f) ==
    {f}
    \cup {[f EXCEPT !.page = v] : v \in PageVals}
    \cup {[f EXCEPT !.limit = v] : v \in LimitVals}
    \cup {[f EXCEPT !.q = v] : v \in QVals}
    \cup {[f EXCEPT !.category = v] : v \in CategoryVals}
    \cup {[f EXCEPT !.type = v] : v \in TypeVals}
    \cup {[f EXCEPT !.sort = v] : v \in SortVals}
    \cup {[f EXCEPT !.locale = v] : v \in LocaleVals}
    \cup {[f EXCEPT !.status = v] : v \in StatusVals}
    \cup {[f EXCEPT !.q = v, !.category = w] : v \in QVals, w \in CategoryVals}

KeyInputs ==
    UNION { { <<BagOf(f, ControllerOrder), BagOf(g, ReverseOrder)>> :
                g \in KeyVariants(f) } : f \in KeyFields }

\* makeListCacheKey applied to both bags
ApplyKey ==
    /\ keyOut = PENDING
    /\ keyOut' = <<makeListCacheKey(COUPONS, keyIn[1]),
                   makeListCacheKey(COUPONS, keyIn[2])>>
    /\ UNCHANGED <<keyIn, clickVars, navVars, listVars, subVars>>

----------------------------------------------------------------------------
(* Cursor codec of CouponsRepo.list (dbhelper/CouponsRepoPublic.js) *)

\* character codes of the characters a cursor payload is made of
Code(c) ==
    IF c \in Digits THEN 48 + DigitVal(c)
    ELSE IF \E i \in 1..26 : LowerSeq[i] = c
    THEN 96 + (CHOOSE i \in 1..26 : LowerSeq[i] = c)
    ELSE IF \E i \in 1..26 : UpperSeq[i] = c
    THEN 64 + (CHOOSE i \in 1..26 : UpperSeq[i] = c)
    ELSE CASE c = "{" -> 123 [] c = "}" -> 125 [] c = "\"" -> 34
           [] c = ":" -> 58 [] c = "," -> 44 [] c = "-" -> 45
           [] OTHER -> 63

\* the character of a byte; bytes outside the table read as "?"
Chr(n) ==
    IF n \in 48..57 THEN NumStr(n - 48)[1]
    ELSE IF n \in 97..122 THEN LowerSeq[n - 96]
    ELSE IF n \in 65..90 THEN UpperSeq[n - 64]
    ELSE CASE n = 123 -> "{" [] n = 125 -> "}" [] n = 34 -> "\""
           [] n = 58 -> ":" [] n = 44 -> "," [] n = 45 -> "-"
           [] OTHER -> "?"

\* the base64 alphabet
B64Char(i) ==
    IF i < 26 THEN UpperSeq[i + 1]
    ELSE IF i < 52 THEN LowerSeq[i - 25]
    ELSE IF i < 62 THEN NumStr(i - 52)[1]
    ELSE IF i = 62 THEN "+" ELSE "/"

IsB64(c) == \E i \in 0..63 : B64Char(i) = c
B64Val(c) == CHOOSE i \in 0..63 : B64Char(i) = c

\* Buffer.from(bytes).toString("base64")
RECURSIVE Base64Encode(_)
Base64Encode(b) ==
    IF Len(b) = 0 THEN <<>>
    ELSE IF Len(b) = 1
    THEN <<B64Char(b[1] \div 4), B64Char((b[1] % 4) * 16), "=", "=">>
    ELSE IF Len(b) = 2
    THEN <<B64Char(b[1] \div 4), B64Char((b[1] % 4) * 16 + b[2] \div 16),
           B64Char((b[2] % 16) * 4), "=">>
    ELSE <<B64Char(b[1] \div 4), B64Char((b[1] % 4) * 16 + b[2] \div 16),
           B64Char((b[2] % 16) * 4 + b[3] \div 64), B64Char(b[3] % 64)>>
         \o Base64Encode(Drop(b, 3))

\* Buffer.from(s, "base64") on the characters of the alphabet, up to the padding
RECURSIVE Base64Decode(_)
Base64Decode(s) ==
    LET n == IF \E i \in 1..Len(s) : ~IsB64(s[i])
             THEN (CHOOSE i \in 1..Len(s) :
                       ~IsB64(s[i]) /\ \A j \in 1..(i - 1) : IsB64(s[j])) - 1
             ELSE Len(s)
        v(i) == B64Val(s[i])
    IN  IF n < 2 THEN <<>>
        ELSE IF n = 2
        THEN <<v(1) * 4 + v(2) \div 16>>
        ELSE IF n = 3
        THEN <<v(1) * 4 + v(2) \div 16, (v(2) % 16) * 16 + v(3) \div 4>>
        ELSE <<v(1) * 4 + v(2) \div 16, (v(2) % 16) * 16 + v(3) \div 4,
               (v(3) % 4) * 64 + v(4)>> \o Base64Decode(Drop(s, 4))

Bytes(s) == [i \in 1..Len(s) |-> Code(s[i])]
Text(b) == [i \in 1..Len(b) |-> Chr(b[i])]

QUOTE == "\""
ID_OPEN == <<"{", QUOTE, "i", "d", QUOTE, ":">>
KEY_OPEN == <<",", QUOTE, "k", "e", "y", QUOTE, ":">>
JSON_NULL == <<"n", "u", "l", "l">>

\* JSON.stringify({ id: row.id, key: row.ends_at || row.published_at || null });
\* an expiry is given by its instant, 0 standing for null
CursorPayload(id, ends_at) ==
    ID_OPEN \o NumStr(id) \o KEY_OPEN
    \o (IF ends_at = 0 THEN JSON_NULL ELSE <<QUOTE>> \o NumStr(ends_at) \o <<QUOTE>>)
    \o <<"}">>

\* encodeCursor(row), row 0 standing for null
encodeCursor(id, ends_at) ==
    IF id = 0 THEN NULL ELSE Base64Encode(Bytes(CursorPayload(id, ends_at)))

\* whether t is a JSON string of digits, or null
IsJsonKey(t) ==
    \/ t = JSON_NULL
    \/ /\ Len(t) >= 2 /\ t[1] = QUOTE /\ t[Len(t)] = QUOTE
       /\ \A i \in 2..(Len(t) - 1) : t[i] \in Digits

\* decoded.id of JSON.parse(text) when it is an object with a numeric id, else 0
\* (a parse failure gives null, another JSON value has no id)
JsonId(t) ==
    IF ~StartsWith(t, ID_OPEN) THEN 0
    ELSE LET rest == Drop(t, Len(ID_OPEN))
             d == DigitPrefixLen(rest)
             tail == Drop(rest, d)
         IN  IF d = 0 \/ (d > 1 /\ rest[1] = "0") THEN 0
             ELSE IF tail = <<"}">> THEN ToNumber(SubSeq(rest, 1, d))
             ELSE IF /\ StartsWith(tail, KEY_OPEN)
                     /\ Len(tail) > Len(KEY_OPEN)
                     /\ tail[Len(tail)] = "}"
                     /\ IsJsonKey(SubSeq(tail, Len(KEY_OPEN) + 1, Len(tail) - 1))
             THEN ToNumber(SubSeq(rest, 1, d))
             ELSE 0

\* the id the keyset filter uses: decodeCursor(c).id, 0 when there is none
decodeCursorId(c) ==
    IF Falsy(c) THEN 0 ELSE JsonId(Text(Base64Decode(c)))

----------------------------------------------------------------------------
(* List query engine and list endpoints (dbhelper/*RepoPublic.js,            *)
(* controllers/publicCoupons.js, publicStores.js, publicBlogs.js).           *)
(* A list query is [page, limit, cursor, type, sort, status]; the free text, *)
(* the category and the store filters are empty in every modelled request.   *)

NoTotal == 0 - 1            \* total: null
Min(a, b) == IF a <= b THEN a ELSE b

\* coupons rows as the list queries read them (ends_at 0 stands for null)
CouponsListInit ==
    (1 :> [is_publish |-> TRUE, coupon_type |-> "coupon", click_count |-> 5,
           ends_at |-> 0, is_editor |-> TRUE, merchant_id |-> 42])
    @@ (2 :> [is_publish |-> TRUE, coupon_type |-> "deal", click_count |-> 9,
              ends_at |-> 0, is_editor |-> FALSE, merchant_id |-> 7])
    @@ (3 :> [is_publish |-> TRUE, coupon_type |-> "coupon", click_count |-> 2,
              ends_at |-> 100, is_editor |-> TRUE, merchant_id |-> 42])
    @@ (4 :> [is_publish |-> FALSE, coupon_type |-> "coupon", click_count |-> 0,
              ends_at |-> 0, is_editor |-> FALSE, merchant_id |-> 7])
    @@ (5 :> [is_publish |-> TRUE, coupon_type |-> "deal", click_count |-> 0,
              ends_at |-> 0, is_editor |-> FALSE, merchant_id |-> 7])

\* created_at of the merchants rows, and the blogs rows
MerchantCreatedAt == (42 :> 3) @@ (7 :> 1) @@ (9 :> 2)
BlogsInit ==
    (1 :> [is_publish |-> TRUE, created_at |-> 10])
    @@ (2 :> [is_publish |-> FALSE, created_at |-> 20])
    @@ (3 :> [is_publish |-> TRUE, created_at |-> 30])
    @@ (4 :> [is_publish |-> TRUE, created_at |-> 40])

\* const _limit = Math.min(Math.max(Number(limit) || 20, 1), 100)
LimitOf(limit) == Min(Max(NumberOr(limit, 20), 1), 100)
\* const _page = Math.max(Number(page) || 1, 1)
PageOf(page) == Max(NumberOr(page, 1), 1)

\* merchants.slug and merchants.category_names, and the merchant_categories
\* rows (slug -> name); no merchant is in the category "Toys"
MerchantSlug == (42 :> <<"a","c">>) @@ (7 :> <<"z","d">>) @@ (9 :> <<"n","i">>)
MerchantCategoryNames == (42 :> {"Shoes"}) @@ (7 :> {}) @@ (9 :> {"Shoes", "Hats"})
MerchantCategories == (<<"s","h">> :> "Shoes") @@ (<<"t","o">> :> "Toys")

\* a slug filter of the request, "" when the request has none
SlugOf(qy, k) == IF k \in DOMAIN qy THEN qy[k] ELSE <<>>

\* lines 61-70: categoryName = cat?.name || null
CategoryNameOf(categorySlug) ==
    IF categorySlug # <<>> /\ categorySlug \in DOMAIN MerchantCategories
    THEN MerchantCategories[categorySlug] ELSE "null"

\* lines 72-83: merchantId = store?.id || null (0 stands for null)
MerchantIdOf(storeSlug) ==
    IF storeSlug # <<>> /\ \E m \in DOMAIN MerchantSlug : MerchantSlug[m] = storeSlug
    THEN CHOOSE m \in DOMAIN MerchantSlug : MerchantSlug[m] = storeSlug
    ELSE 0

\* .contains("category_names", [categoryName]): the merchants of a category
MerchantsIn(categoryName) ==
    {m \in DOMAIN MerchantCategoryNames : categoryName \in MerchantCategoryNames[m]}

\* if (merchantId) ....eq("merchant_id", merchantId)
StoreFilter(row, merchantId) == merchantId # 0 => row.merchant_id = merchantId

\* if (categoryName) { mids = ...; if (... mids.length) ....in("merchant_id", ids) }
CategoryFilter(row, categoryName) ==
    (categoryName # "null" /\ MerchantsIn(categoryName) # {})
        => row.merchant_id \in MerchantsIn(categoryName)

\* the rows the filters of a coupons query keep at instant t
Matching(table, qy, t) ==
    {id \in DOMAIN table :
        /\ table[id].is_publish
        /\ StoreFilter(table[id], MerchantIdOf(SlugOf(qy, "storeSlug")))
        /\ (qy.type = "all" \/ table[id].coupon_type = qy.type)
        /\ (qy.status = "all" \/ table[id].ends_at = 0 \/ table[id].ends_at > t)
        /\ CategoryFilter(table[id], CategoryNameOf(SlugOf(qy, "categorySlug")))}

\* where the store puts row id among rows its ORDER BY leaves tied: its place
\* in storeOrder, and after those the rows storeOrder does not name, oldest first
TieRank(id) ==
    IF \E i \in 1..Len(storeOrder) : storeOrder[i] = id
    THEN CHOOSE i \in 1..Len(storeOrder) : storeOrder[i] = id
    ELSE Len(storeOrder) + id

\* .order(...) of lines 266-282: whether row a comes before row b. "ending" is
\* ends_at ascending, nulls last, and nothing else; the other sorts end in
\* id descending
Before(table, a, b, sort) ==
    IF sort = "ending"
    THEN \/ table[a].ends_at # 0 /\ table[b].ends_at = 0
         \/ /\ table[a].ends_at # 0 /\ table[b].ends_at # 0
            /\ table[a].ends_at < table[b].ends_at
         \/ table[a].ends_at = table[b].ends_at /\ TieRank(a) < TieRank(b)
    ELSE IF sort = "trending"
    THEN \/ table[a].click_count > table[b].click_count
         \/ table[a].click_count = table[b].click_count /\ a > b
    ELSE IF sort = "editor"
    THEN \/ table[a].is_editor /\ ~table[b].is_editor
         \/ table[a].is_editor = table[b].is_editor /\ a > b
    ELSE a > b

\* the rows of S in the order of the sort
Ordered(table, S, sort) ==
    [i \in 1..Cardinality(S) |->
        CHOOSE id \in S : Cardinality({j \in S : Before(table, j, id, sort)}) = i - 1]

\* .range(from, to) and .limit(n) on an ordered result
Range(rows, from, to) ==
    IF from + 1 > Len(rows) THEN <<>>
    ELSE SubSeq(rows, from + 1, Min(to + 1, Len(rows)))

\* a keyset branch that announces more rows after every non-empty page
listCursorModeNonEmpty(table, qy, t) ==
    LET decodedId == decodeCursorId(qy.cursor)
        S == {id \in Matching(table, qy, t) : decodedId = 0 \/ id < decodedId}
        rows == Range(Ordered(table, S, "latest"), 0, LimitOf(qy.limit) - 1)
        lastRow == IF Len(rows) > 0 THEN rows[Len(rows)] ELSE 0
    IN  [data |-> rows,
         meta |-> [mode |-> "cursor", page |-> PageOf(qy.page),
                   limit |-> LimitOf(qy.limit), total |-> NoTotal,
                   next_cursor |-> encodeCursor(lastRow,
                                     IF lastRow = 0 THEN 0 ELSE table[lastRow].ends_at),
                   has_more |-> Len(rows) > 0]]

\* keyset branch of CouponsRepo.list (lines 153-233)
listCursorMode(table, qy, t) ==
    LET decodedId == decodeCursorId(qy.cursor)
        S == {id \in Matching(table, qy, t) : decodedId = 0 \/ id < decodedId}
        rows == Range(Ordered(table, S, "latest"), 0, LimitOf(qy.limit) - 1)
        lastRow == IF Len(rows) > 0 THEN rows[Len(rows)] ELSE 0
    IN  [data |-> rows,
         meta |-> [mode |-> "cursor", page |-> PageOf(qy.page),
                   limit |-> LimitOf(qy.limit), total |-> NoTotal,
                   next_cursor |-> encodeCursor(lastRow,
                                     IF lastRow = 0 THEN 0 ELSE table[lastRow].ends_at),
                   has_more |-> Len(rows) = LimitOf(qy.limit)]]

\* offset branch of CouponsRepo.list (lines 235-354); it returns no next_cursor
\* and no has_more
listOffsetMode(table, qy, t) ==
    LET from == (PageOf(qy.page) - 1) * LimitOf(qy.limit)
        to == from + LimitOf(qy.limit) - 1
        S == Matching(table, qy, t)
        rows == Range(Ordered(table, S, qy.sort), from, to)
        count == Cardinality(S)
    IN  [data |-> rows,
         meta |-> [mode |-> "offset", page |-> PageOf(qy.page),
                   limit |-> LimitOf(qy.limit),
                   total |-> IF count = 0 THEN Len(rows) ELSE count,
                   next_cursor |-> NULL, has_more |-> FALSE]]

CouponsRepoList(table, qy, t) ==
    IF ~Falsy(qy.cursor) THEN listCursorMode(table, qy, t)
    ELSE listOffsetMode(table, qy, t)

\* the payload the controllers return when the retrieval threw
ErrorPayload(qy) ==
    [data |-> <<>>,
     meta |-> [mode |-> "error", page |-> qy.page, limit |-> qy.limit, total |-> 0,
               next_cursor |-> NULL, has_more |-> FALSE, total_pages |-> 1]]

\* meta of a payload: the repository's meta and the navigator's page count
WithPages(r, total, limit) ==
    [mode |-> r.mode, page |-> r.page, limit |-> r.limit, total |-> r.total,
     next_cursor |-> r.next_cursor, has_more |-> r.has_more,
     total_pages |-> totalPages(total, limit)]

\* a coupons producer that lets the store error through
CouponsProducerThrows(table, qy, t, fail) ==
    IF fail # "none" THEN [threw |-> TRUE, value |-> ErrorPayload(qy)]
    ELSE LET r == CouponsRepoList(table, qy, t) IN
         [threw |-> FALSE,
          value |-> [data |-> r.data,
                     meta |-> WithPages(r.meta,
                                 IF r.meta.total = NoTotal THEN 0 ELSE r.meta.total,
                                 qy.limit)]]

\* the producer of publicCoupons.list (lines 83-189); fail names the query the
\* store fails, "none" when it answers all of them
CouponsProducer(table, qy, t, fail) ==
    IF fail # "none" THEN [threw |-> FALSE, value |-> ErrorPayload(qy)]
    ELSE LET r == CouponsRepoList(table, qy, t) IN
         [threw |-> FALSE,
          value |-> [data |-> r.data,
                     meta |-> WithPages(r.meta,
                                 IF r.meta.total = NoTotal THEN 0 ELSE r.meta.total,
                                 qy.limit)]]

\* StoresRepo.list, default mode (lines 73-119)
StoresRepoList(table, qy, fail) ==
    LET safePage == IF qy.page >= 1 THEN qy.page ELSE 1
        safeLimit == IF qy.limit >= 1 THEN qy.limit ELSE 20
        from == (safePage - 1) * safeLimit
        to == from + safeLimit - 1
        total == IF fail \in {"count", "both"} THEN 0 ELSE Cardinality(DOMAIN table)
        sorted == [i \in 1..Cardinality(DOMAIN table) |->
                     CHOOSE id \in DOMAIN table :
                        Cardinality({j \in DOMAIN table :
                            MerchantCreatedAt[j] > MerchantCreatedAt[id]}) = i - 1]
        rows == Range(sorted, from, to)
    IN  IF fail \in {"main", "both"} THEN [rows |-> <<>>, total |-> 0]
        ELSE [rows |-> rows, total |-> IF total = 0 THEN Len(rows) ELSE total]

\* the producer of publicStores.list (lines 64-124)
StoresProducer(table, qy, fail) ==
    LET r == StoresRepoList(table, qy, fail) IN
    [threw |-> FALSE,
     value |-> [data |-> r.rows,
                meta |-> [mode |-> "offset", page |-> qy.page, limit |-> qy.limit,
                          total |-> r.total, next_cursor |-> NULL,
                          has_more |-> FALSE,
                          total_pages |-> totalPages(r.total, qy.limit)]]]

\* BlogsRepo.list, default mode (lines 65-125)
BlogsRepoList(table, qy) ==
    LET from == (qy.page - 1) * qy.limit
        to == from + qy.limit - 1
        S == {id \in DOMAIN table : table[id].is_publish}
        sorted == [i \in 1..Cardinality(S) |->
                     CHOOSE id \in S :
                        Cardinality({j \in S :
                            table[j].created_at > table[id].created_at}) = i - 1]
        rows == Range(sorted, from, to)
        total == Cardinality(S)
    IN  [rows |-> rows, total |-> IF total = 0 THEN Len(rows) ELSE total]

\* the producer of publicBlogs.list (lines 66-130)
BlogsProducer(table, qy, fail) ==
    IF fail # "none" THEN [threw |-> FALSE, value |-> ErrorPayload(qy)]
    ELSE LET r == BlogsRepoList(table, qy) IN
         [threw |-> FALSE,
          value |-> [data |-> r.rows,
                     meta |-> [mode |-> "offset", page |-> qy.page,
                               limit |-> qy.limit, total |-> r.total,
                               next_cursor |-> NULL, has_more |-> FALSE,
                               total_pages |-> totalPages(r.total, qy.limit)]]]

\* the characters of an enumerated parameter value
WordOf(w) ==
    CASE w = "all" -> <<"a","l","l">>
      [] w = "coupon" -> <<"c","o","u","p","o","n">>
      [] w = "deal" -> <<"d","e","a","l">>
      [] w = "latest" -> <<"l","a","t","e","s","t">>
      [] w = "trending" -> <<"t","r","e","n","d","i","n","g">>
      [] w = "ending" -> <<"e","n","d","i","n","g">>
      [] w = "editor" -> <<"e","d","i","t","o","r">>
      [] w = "newest" -> <<"n","e","w","e","s","t">>
      [] OTHER -> <<>>

STORES == <<"s","t","o","r","e","s">>
BLOGS == <<"b","l","o","g","s">>
LOCALE == <<"e","n">>

\* the object the controllers give to makeListCacheKey: the cursor and the
\* status are not part of it
KeyBag(qy, type) ==
    << [k |-> "page", v |-> NumStr(qy.page)],
       [k |-> "limit", v |-> NumStr(qy.limit)],
       [k |-> "q", v |-> <<>>],
       [k |-> "category", v |-> SlugOf(qy, "categorySlug")],
       [k |-> "sort", v |-> WordOf(qy.sort)],
       [k |-> "locale", v |-> LOCALE],
       [k |-> "type", v |-> type] >>

CouponsKey(qy) == makeListCacheKey(COUPONS, KeyBag(qy, WordOf(qy.type)))
StoresKey(qy) == makeListCacheKey(STORES, KeyBag(qy, <<>>))
BlogsKey(qy) == makeListCacheKey(BLOGS, KeyBag(qy, <<>>))

\* the result cache: a hit needs an entry that has not expired
CacheHit(cache, key, t) == key \in DOMAIN cache /\ t < cache[key].expiresAt

CachePut(cache, key, value, t, ttl) ==
    [k \in DOMAIN cache \cup {key} |->
        IF k = key THEN [value |-> value, expiresAt |-> t + ttl] ELSE cache[k]]

\* withCache(req, producer, { ttlSeconds, keyExtra }) followed by ok(res, result),
\* or by fail(res, ...) when the producer's error came through: the cache and the
\* log after a request whose producer would give out
Served(endpoint, qy, key, out, fail) ==
    LET hit == CacheHit(listCache, key, now)
        value == IF hit THEN listCache[key].value ELSE out.value
        threw == ~hit /\ out.threw
    IN  /\ listCache' = IF hit \/ threw THEN listCache
                        ELSE CachePut(listCache, key, value, now, CACHE_TTL_PUBLIC)
        /\ listLog' = Append(listLog,
              [endpoint |-> endpoint, q |-> qy, key |-> key, t |-> now,
               status |-> IF threw THEN 500 ELSE 200,
               data |-> IF threw THEN <<>> ELSE value.data,
               meta |-> IF threw THEN ErrorPayload(qy).meta ELSE value.meta,
               produced |-> ~hit,
               failed |-> IF hit THEN "none" ELSE fail,
               table |-> coupons])
        /\ UNCHANGED storeOrder

\* GET /coupons, the budget-th request at most; fail names the query the store
\* fails while the producer runs ("none" when it answers, or on a hit)
ListCoupons(qy, fail, budget) ==
    /\ Len(listLog) < budget
    /\ LET key == CouponsKey(qy) IN
        /\ CacheHit(listCache, key, now) => fail = "none"
        /\ ~Falsy(qy.cursor) => fail # "count"
        /\ Served("coupons", qy, key, CouponsProducer(coupons, qy, now, fail), fail)
    /\ UNCHANGED <<clickVars, navVars, keyVars, subVars>>

\* GET /stores
ListStores(qy, fail, budget) ==
    /\ Len(listLog) < budget
    /\ LET key == StoresKey(qy) IN
        /\ CacheHit(listCache, key, now) => fail = "none"
        /\ Served("stores", qy, key, StoresProducer(merchants, qy, fail), fail)
    /\ UNCHANGED <<clickVars, navVars, keyVars, subVars>>

\* GET /blogs
ListBlogs(qy, fail, budget) ==
    /\ Len(listLog) < budget
    /\ LET key == BlogsKey(qy) IN
        /\ CacheHit(listCache, key, now) => fail = "none"
        /\ Served("blogs", qy, key, BlogsProducer(BlogsInit, qy, fail), fail)
    /\ UNCHANGED <<clickVars, navVars, keyVars, subVars>>

\* the orders a finite set of rows can come in
Orders(S) ==
    {o \in [1..Cardinality(S) -> S] : \A i, j \in DOMAIN o : i # j => o[i] # o[j]}

\* between two queries the store is free to change the order in which it returns
\* rows that an ORDER BY does not tell apart (no order is promised for them);
\* only published rows are ever selected, so only their order is kept
Reordered ==
    /\ storeOrder' \in Orders({id \in DOMAIN coupons : coupons[id].is_publish})
    /\ storeOrder' # storeOrder
    /\ UNCHANGED <<listCache, listLog>>
    /\ UNCHANGED <<clickVars, navVars, keyVars, subVars>>

\* d seconds pass
Later(d) ==
    /\ now + d <= MaxTime
    /\ now' = now + d
    /\ UNCHANGED <<rateCache, windowStart, admitted, coupons, merchants, req, audit, served,
                   redirIn, redirOut>>
    /\ UNCHANGED publicVars

\* an editor publishes a coupon (the back office writes the same table)
CouponPublished ==
    /\ \E id \in 1..MaxCouponId :
          /\ \A j \in DOMAIN coupons : j < id
          /\ coupons' = [j \in DOMAIN coupons \cup {id} |->
                IF j = id
                THEN [is_publish |-> TRUE, coupon_type |-> "coupon",
                      click_count |-> 0, ends_at |-> 0, is_editor |-> FALSE,
                      merchant_id |-> 42]
                ELSE coupons[j]]
    /\ UNCHANGED <<now, rateCache, windowStart, admitted, merchants, req, audit, served,
                   redirIn, redirOut>>
    /\ UNCHANGED publicVars

----------------------------------------------------------------------------
(* POST /subscribe (controllers/publicBlogs.js, lines 254-335) *)

UNKNOWN == <<"u","n","k","n","o","w","n">>

\* Date.now(), in milliseconds
DateNow(t) == t * 1000

\* EMAIL_REGEX.test(s): /^[^\s@]+@[^\s@]+\.[^\s@]{2,}$/
EmailRegexTest(s) ==
    \E a \in 2..(Len(s) - 1) : \E d \in (a + 2)..(Len(s) - 2) :
        /\ s[a] = "@"
        /\ s[d] = "."
        /\ \A i \in 1..Len(s) : i # a => (s[i] # " " /\ s[i] # "@")

\* a window that is over as soon as its 60 s have passed
WindowOverInclusive(t, firstTs) == t - firstTs >= RATE_LIMIT_WINDOW_MS

\* line 267: whether the window opened at firstTs is over at t
WindowOver(t, firstTs) == t - firstTs > RATE_LIMIT_WINDOW_MS

\* lines 266-271: the entry of the address after this request was counted
Counted(rate, ip, t) ==
    LET entry == IF ip \in DOMAIN rate THEN rate[ip] ELSE [count |-> 0, firstTs |-> t]
        current == IF WindowOver(t, entry.firstTs) THEN [count |-> 0, firstTs |-> t]
                   ELSE entry
    IN  [current EXCEPT !.count = @ + 1]

\* lines 283-330: the answer to a request the limiter lets through
SubscribeAnswer(body, db) ==
    IF body.honeypot THEN [status |-> 200, message |-> "Subscribed", saved |-> FALSE]
    ELSE IF Falsy(body.email) \/ ~EmailRegexTest(Trim(body.email))
    THEN [status |-> 400, message |-> "Invalid email", saved |-> FALSE]
    ELSE IF db = "error"
    THEN [status |-> 500, message |-> "Failed to save subscription", saved |-> FALSE]
    ELSE [status |-> 200, message |-> "Subscribed", saved |-> TRUE]

\* the bodies clients post
SubscribeBodies ==
    { [email |-> <<" ","A","@","B",".","c","o"," ">>, honeypot |-> FALSE],
      [email |-> <<"a","@","b">>, honeypot |-> FALSE],
      [email |-> NULL, honeypot |-> TRUE] }

\* subscribe(req, res): reqIp is req.ip, forwarded the x-forwarded-for header, db
\* the outcome of the upsert
Subscribe(reqIp, forwarded, body, db) ==
    LET ip == OrElse(reqIp, OrElse(forwarded, UNKNOWN))
        t == DateNow(now)
        entry == Counted(subscribeRate, ip, t)
        limited == entry.count > SUBSCRIBE_MAX_REQUESTS_PER_WINDOW
        answer == IF limited
                  THEN [status |-> 429,
                        message |-> "Too many requests, please try again later",
                        saved |-> FALSE]
                  ELSE SubscribeAnswer(body, db)
        email == LowerStr(Trim(OrElse(body.email, <<>>)))
    IN  /\ entry.count <= MaxSubscribeCount
        /\ db = "error" => (answer.status = 500)
        /\ subscribeRate' = [k \in DOMAIN subscribeRate \cup {ip} |->
                                IF k = ip THEN entry ELSE subscribeRate[k]]
        /\ subscriptions' =
              IF answer.saved
              THEN [e \in DOMAIN subscriptions \cup {email} |->
                      IF e = email THEN [ip |-> ip] ELSE subscriptions[e]]
              ELSE subscriptions
        /\ subLog' = << [ip |-> ip, t |-> t, status |-> answer.status,
                         message |-> answer.message] >>
        /\ UNCHANGED <<clickVars, navVars, keyVars, listVars>>

----------------------------------------------------------------------------
(* Specifications *)

KeyIdle == keyIn = NULL /\ keyOut = NULL
ListIdle == listCache = <<>> /\ listLog = <<>> /\ storeOrder = <<>>
SubscribeIdle == subscribeRate = <<>> /\ subscriptions = <<>> /\ subLog = <<>>
PublicIdle == NavIdle /\ KeyIdle /\ ListIdle /\ SubscribeIdle

Slots == 1..NSlots

Init ==
    /\ now = 0
    /\ rateCache = <<>>
    /\ windowStart = <<>>
    /\ coupons = CouponsInit
    /\ merchants = MerchantsInit
    /\ req = [r \in Slots |-> IdleReq]
    /\ audit = [r \in Slots |-> "none"]
    /\ served = 0
    /\ redirIn = <<NULL, NULL, NULL>>
    /\ redirOut = NULL
    /\ PublicIdle
    /\ admitted = <<>>

\* one connection, every identifier of the grammar
Next ==
    \/ \E raw \in OfferIds : Arrive(1, raw, MaxServed)
    \/ GetByIdReturns(1)
    \/ GetByIdThrows(1)
    \/ FetchStoreReturns(1)
    \/ FetchStoreFails(1)
    \/ IncrementReturns(1)
    \/ IncrementThrows(1)
    \/ AuditWritten(1)
    \/ AuditFails(1)

Spec == Init /\ [][Next]_vars

\* one connection, one (ip, offer) pair, and the clock
RateId == BlockId(H2, 42, 0)

RateNext ==
    \/ Arrive(1, RateId, RateServed)
    \/ FetchStoreReturns(1)
    \/ FetchStoreFails(1)
    \/ AuditWritten(1)
    \/ AuditFails(1)
    \/ Tick

SpecRate == Init /\ [][RateNext]_vars

\* one connection, a burst of requests on a coupon (whose number is also a
\* merchant's), a block and an unknown identifier
BurstIds == {NumStr(7), BlockId(H2, 42, 0), <<"x","y","z">>}

BurstNext ==
    \/ \E raw \in BurstIds : Arrive(1, raw, BurstServed)
    \/ GetByIdReturns(1)
    \/ GetByIdThrows(1)
    \/ FetchStoreReturns(1)
    \/ FetchStoreFails(1)
    \/ IncrementReturns(1)
    \/ IncrementThrows(1)
    \/ AuditWritten(1)
    \/ AuditFails(1)

SpecBurst == Init /\ [][BurstNext]_vars

\* one connection, request after request: a coupon (whose number is also a
\* merchant's), a number that is neither a coupon nor a merchant, and a blank
\* identifier
AuditIds == {NumStr(7), NumStr(5), <<" ">>}

AuditNext ==
    \/ \E raw \in AuditIds : Arrive(1, raw, AuditServed)
    \/ GetByIdReturns(1)
    \/ GetByIdThrows(1)
    \/ FetchStoreReturns(1)
    \/ FetchStoreFails(1)
    \/ IncrementReturns(1)
    \/ IncrementThrows(1)
    \/ AuditWritten(1)
    \/ AuditFails(1)

SpecAudit == Init /\ [][AuditNext]_vars

\* NSlots clicks on the same coupon, interleaved at every await
ConcId == NumStr(1)

ConcNext ==
    \E r \in Slots :
        \/ req[r].pc = "idle" /\ Arrive(r, ConcId, NSlots)
        \/ GetByIdReturns(r)
        \/ GetByIdThrows(r)
        \/ FetchStoreReturns(r)
        \/ FetchStoreFails(r)
        \/ IncrementReturns(r)
        \/ IncrementThrows(r)
        \/ AuditWritten(r)
        \/ AuditFails(r)

SpecConc == Init /\ [][ConcNext]_vars

\* one connection clicking on more offers than the rate table holds, none of
\* which any pattern resolves, with pauses shorter and longer than the ttl
EvictIds ==
    { <<"x","y","z">>, <<"h","2","-","4","2">>, <<"h","4","-","4","2","-","0">>,
      <<"4","2","-","h","5","-","0">>, Rep("a", 8) \o Dash \o Rep("0", 4) }

EvictNext ==
    \/ \E raw \in EvictIds : Arrive(1, raw, EvictServed)
    \/ Later(TTL_SECONDS + 1)

SpecEvict == Init /\ [][EvictNext]_vars

\* one connection clicking again and again on one block within a single window,
\* with clicks on as many other identifiers as the rate table holds in between;
\* the clicks the limiter lets through for the block are counted
FloodId == BlockId(H2, 42, 0)
FloodOthers == {<<"x","y","z">>, <<"h","2","-","4","2">>, <<"h","4","-","4","2","-","0">>}

FloodInit ==
    /\ Init!1 /\ Init!2 /\ Init!3 /\ Init!4 /\ Init!5 /\ Init!6 /\ Init!7 /\ Init!8
    /\ Init!9 /\ Init!10 /\ Init!11
    /\ admitted = (RateKey(ClientIp, FloodId) :> 0)

FloodNext ==
    \/ \E raw \in {FloodId} \cup FloodOthers : Arrive(1, raw, FloodServed)
    \/ FetchStoreReturns(1)
    \/ FetchStoreFails(1)
    \/ AuditWritten(1)
    \/ AuditFails(1)

SpecFlood == FloodInit /\ [][FloodNext]_vars

\* the redirect computation on every triple of candidate values
RedirectInit ==
    /\ Init!1 /\ Init!2 /\ Init!3 /\ Init!4 /\ Init!5 /\ Init!6 /\ Init!7 /\ Init!8
    /\ redirIn \in UrlSamples \X UrlSamples \X UrlSamples
    /\ redirOut = <<"pending">>
    /\ PublicIdle
    /\ Init!12

SpecRedirect == RedirectInit /\ [][ApplyRedirect]_vars

\* the click handler at rest
ClickIdle ==
    /\ Init!1 /\ Init!2 /\ Init!3 /\ Init!4 /\ Init!5 /\ Init!6 /\ Init!7 /\ Init!8
    /\ Init!9 /\ Init!10 /\ Init!12

\* the pagination navigator on every input of the bounded sets
NavInit ==
    /\ ClickIdle /\ KeyIdle /\ ListIdle /\ SubscribeIdle
    /\ navIn \in NavInputs
    /\ navOut = NavPending

SpecNav == NavInit /\ [][ApplyNav]_vars

\* the cache key builder on pairs of parameter bags
KeyInit ==
    /\ ClickIdle /\ NavIdle /\ ListIdle /\ SubscribeIdle
    /\ keyIn \in KeyInputs
    /\ keyOut = PENDING

SpecKey == KeyInit /\ [][ApplyKey]_vars

\* the list endpoints at rest, over the coupons rows the lists read
ListInit ==
    /\ Init!1 /\ Init!2 /\ Init!3
    /\ coupons = CouponsListInit
    /\ Init!5 /\ Init!6 /\ Init!7 /\ Init!8 /\ Init!9 /\ Init!10
    /\ PublicIdle
    /\ Init!12

\* a token that is no base64 of a JSON text
GarbageCursor == <<"a","b","c","d">>

\* the cursors a client holds: none, garbage, and those it was given
KnownCursors ==
    {NULL, GarbageCursor} \cup {listLog[i].meta.next_cursor : i \in 1..Len(listLog)}

\* the coupons list, paged by cursor and by page number, with the cache expiring
CursorNext ==
    \/ \E page \in {1, 2}, cursor \in KnownCursors, type \in {"all", "coupon"},
          sort \in {"latest", "trending"} :
          ListCoupons([page |-> page, limit |-> 2, cursor |-> cursor, type |-> type,
                       sort |-> sort, status |-> "active"], "none", MaxCursorLog)
    \/ Later(CACHE_TTL_PUBLIC + 1)

SpecCursor == ListInit /\ [][CursorNext]_vars

\* the coupons list walked by cursor alone, each page after the cached one expired
PagesNext ==
    \/ \E cursor \in KnownCursors, type \in {"coupon", "deal"} :
          ListCoupons([page |-> 1, limit |-> 2, cursor |-> cursor, type |-> type,
                       sort |-> "latest", status |-> "active"], "none", MaxCursorLog)
    \/ Later(CACHE_TTL_PUBLIC + 1)

SpecPages == ListInit /\ [][PagesNext]_vars

\* the first page of a list, as the three endpoints read the request
FirstPage ==
    [page |-> 1, limit |-> 2, cursor |-> NULL, type |-> "all", sort |-> "latest",
     status |-> "active"]

\* the three list endpoints over a store that fails some of the queries, with
\* requests less than one TTL apart
DegradeNext ==
    \/ \E fail \in {"none", "count", "main"} :
          ListCoupons(FirstPage, fail, MaxDegradeLog)
    \/ \E fail \in {"none", "count", "main", "both"} :
          ListStores(FirstPage, fail, MaxDegradeLog)
    \/ \E fail \in {"none", "count", "main"} :
          ListBlogs(FirstPage, fail, MaxDegradeLog)
    \/ Later(CACHE_TTL_PUBLIC - 1)

SpecDegrade == ListInit /\ [][DegradeNext]_vars

\* one coupons list requested again and again while time passes and the back
\* office publishes coupons
TtlNext ==
    \/ ListCoupons(FirstPage, "none", MaxListLog)
    \/ \E d \in {CACHE_TTL_PUBLIC - 1, CACHE_TTL_PUBLIC, CACHE_TTL_PUBLIC + 1} : Later(d)
    \/ CouponPublished

SpecTtl == ListInit /\ [][TtlNext]_vars

\* store and category slugs clients ask for: none, known ones, unknown ones
StoreSlugs == {<<>>, <<"a","c">>, <<"x","x">>}
CategorySlugs == {<<>>, <<"s","h">>, <<"t","o">>, <<"x","x">>}

\* the coupons list filtered by store and by category, by page number and by
\* cursor
FilterNext ==
    \E page \in {1, 2}, cursor \in KnownCursors,
       storeSlug \in StoreSlugs, categorySlug \in CategorySlugs :
       ListCoupons([page |-> page, limit |-> 2, cursor |-> cursor, type |-> "all",
                    sort |-> "latest", status |-> "active",
                    storeSlug |-> storeSlug, categorySlug |-> categorySlug],
                   "none", MaxFilterLog)

SpecFilter == ListInit /\ [][FilterNext]_vars

\* the sort keys of the coupons list
CouponSorts == {"latest", "ending", "trending", "editor"}

\* pages 1 and 2 of the coupons list under every sort key, over a store that
\* chooses the order of tied rows query by query
SortNext ==
    \/ \E page \in {1, 2}, sort \in CouponSorts :
          ListCoupons([page |-> page, limit |-> 2, cursor |-> NULL, type |-> "all",
                       sort |-> sort, status |-> "active"], "none", MaxSortLog)
    \/ Reordered

SpecSort == ListInit /\ [][SortNext]_vars

\* two addresses (one known only as "unknown") posting to the subscribe endpoint,
\* with pauses of exactly one window and of one second more
SubscribeNext ==
    \/ \E reqIp \in {ClientIp, NULL}, body \in SubscribeBodies, db \in {"ok", "error"} :
          Subscribe(reqIp, NULL, body, db)
    \/ \E d \in {RATE_LIMIT_WINDOW_MS \div 1000, RATE_LIMIT_WINDOW_MS \div 1000 + 1} :
          Later(d)

SpecSubscribe == Init /\ [][SubscribeNext]_vars

----------------------------------------------------------------------------
(* Claims about identifier resolution and click accounting, under Spec *)

Done(r) == req[r].pc = "done"
Combined(m) == merchants[m].coupon_h2_blocks \o merchants[m].coupon_h3_blocks
StoredMerchants == MerchantIds \cap DOMAIN merchants

\* what a finished, not rate-limited request for `id` must show when the
\* addressed sequence is `arr` and the 0-based position is i0
ResolvesAt(r, id, arr, i0) ==
    (Done(r) /\ req[r].offerId = id /\ req[r].status # 429 /\ ~req[r].storeError)
        => IF i0 < Len(arr)
           THEN req[r].status = 200 /\ req[r].block = arr[i0 + 1]
           ELSE req[r].status = 404

\* C7: with the merchant row fetched, trending-M-k (1 <= k <= |A|+|B|) resolves
\* to element k-1 of A followed by B, h2-M-i / h3-M-i to A[i] / B[i], and an
\* index at or beyond the end of the addressed sequence ends in 404.
C7_BlockAddressing ==
    \A r \in Slots, m \in StoredMerchants, i \in Indexes :
        /\ (i >= 1 => ResolvesAt(r, TrendingId(m, i), Combined(m), i - 1))
        /\ ResolvesAt(r, BlockId(H2, m, i), merchants[m].coupon_h2_blocks, i)
        /\ ResolvesAt(r, BlockId(H3, m, i), merchants[m].coupon_h3_blocks, i)

\* trending-42-3 answered 200 with the first h3 block of merchant 42
C7_Witness ==
    \E r \in Slots :
        /\ Done(r) /\ req[r].offerId = TrendingId(42, 3)
        /\ req[r].status = 200
        /\ req[r].block = merchants[42].coupon_h3_blocks[1]

CanonicalShaped == DigitIds \cup UuidIds
TrendingShaped == TrendingIds \cup {id \in UpperCaseIds : Len(id) > 8}
PrefixShaped == (BlockIds \cup UpperCaseIds) \ TrendingShaped
PatternOrder == <<"trending", "prefix", "legacy">>

\* C8: the canonical lookup is attempted only for all-digit or UUID-shaped
\* identifiers; the composite patterns are tried only when no canonical offer
\* was found, in the order trending, h2/h3, legacy, stopping at the first match;
\* when none matches the answer is 404 and no merchant row is fetched.
C8_ResolutionOrder ==
    \A r \in Slots :
        LET q == req[r] IN
        /\ (q.pc = "getById" \/ q.lookup # "none") => q.offerId \in CanonicalShaped
        /\ q.tried # <<>> => q.lookup \in {"none", "miss", "error"}
        /\ q.source = "coupon" => q.lookup = "hit" /\ q.tried = <<>>
        /\ \E n \in 0..3 : q.tried = SubSeq(PatternOrder, 1, n)
        /\ (q.tried # <<>> /\ q.offerId \in TrendingShaped)
              => q.tried = <<"trending">> /\ q.parsed.type = "trending"
        /\ (q.tried # <<>> /\ q.offerId \in PrefixShaped)
              => q.tried = <<"trending", "prefix">> /\ q.parsed.type = "block"
        /\ Len(q.tried) = 1 => q.parsed.type = "trending"
        /\ Len(q.tried) = 2 => q.parsed.type = "block"
        /\ (q.offerId \in OtherIds /\ q.pc # "idle" /\ q.status # 429)
              => q.tried = PatternOrder /\ q.parsed.type = "none"
        /\ (q.tried # <<>> /\ q.parsed.type = "none")
              => Done(r) /\ q.status = 404 /\ ~q.fetched

\* an all-digit identifier missed the coupons table, fell through all three
\* patterns and was resolved by the legacy one
C8_Witness ==
    \E r \in Slots :
        /\ Done(r) /\ req[r].lookup = "miss" /\ req[r].tried = PatternOrder
        /\ req[r].parsed.type = "merchant" /\ req[r].fetched /\ req[r].status = 200

\* C9: a canonical lookup that throws never leads to 500: the composite
\* patterns are tried, and the answer is 200 for a merchant block, without an
\* increment attempt, or 404.
C9_LookupErrorFallsThrough ==
    \A r \in Slots :
        req[r].lookup = "error" =>
            /\ req[r].tried # <<>>
            /\ req[r].status # 500
            /\ req[r].increment = "none"
            /\ Done(r) => \/ req[r].status = 404
                          \/ /\ req[r].status = 200
                             /\ req[r].source = "merchant-block"

\* the lookup threw and the click was answered 200 from a merchant block
C9_Witness ==
    \E r \in Slots :
        /\ Done(r) /\ req[r].lookup = "error" /\ req[r].status = 200
        /\ req[r].source = "merchant-block"

\* C10: the audit insert is pending only once the 200 answer has been sent, and
\* its completion or failure leaves the answer (status and body) as it was.
C10_AuditDetached ==
    [][\A r \in Slots :
          /\ audit'[r] = "pending" => req'[r].pc = "done" /\ req'[r].status = 200
          /\ (audit[r] = "pending" /\ audit'[r] # "pending") => req'[r] = req[r]
      ]_vars

\* the audit insert failed after a 200 answer
C10_Witness ==
    \E r \in Slots : audit[r] = "failed" /\ Done(r) /\ req[r].status = 200

\* C3 (as claimed): every canonical click answered 200 "Click recorded" has
\* raised the stored counter of its coupon by exactly 1, also when the
\* increment operation fails.
C3_AcceptedClickCounted ==
    [][\A r \in Slots :
          ( /\ req[r].pc # "done" /\ req'[r].pc = "done"
            /\ req'[r].status = 200 /\ req'[r].source = "coupon" )
          => coupons'[ToNumber(req'[r].offerId)].click_count
                = coupons[ToNumber(req'[r].offerId)].click_count + 1
      ]_vars

----------------------------------------------------------------------------
(* Claims about the click rate limiter, under SpecRate *)

TheKey == RateKey(ClientIp, RateId)

\* a step in which slot r receives a request for the rate key
Requested(r) == served' = served + 1 /\ req'[r].offerId = RateId /\ req'[r].ip = ClientIp

Limited(q) == q.pc = "done" /\ q.status = 429

\* C1 (as claimed): within 60 seconds of the request that opened the window the
\* first 12 requests of the pair are not rate-limited and the 13th is answered
\* 429; a request 61 seconds after the first request of the window is accepted.
C1_TwelvePerMinute ==
    [][\A r \in Slots :
          Requested(r) =>
            LET n == RateGetValue(rateCache', TheKey, now)
                w == windowStart'[TheKey]
            IN  /\ (now - w <= TTL_SECONDS /\ n <= MAX_REQUESTS_PER_WINDOW)
                      => ~Limited(req'[r])
                /\ (now - w <= TTL_SECONDS /\ n = MAX_REQUESTS_PER_WINDOW + 1)
                      => Limited(req'[r])
                /\ (TheKey \in DOMAIN windowStart
                        /\ now = windowStart[TheKey] + TTL_SECONDS + 1)
                      => ~Limited(req'[r])
      ]_vars

\* C2 (as claimed): the window starts at the request that created the counter;
\* a later request inside the window adds 1 to the count and leaves the window
\* start alone; the first request more than 60 seconds after the window start
\* opens a new window with count 1.
C2_FixedWindow ==
    [][\A r \in Slots :
          (Requested(r) /\ TheKey \in DOMAIN windowStart) =>
            LET before == RateGetValue(rateCache, TheKey, now)
                after == RateGetValue(rateCache', TheKey, now)
            IN  IF now - windowStart[TheKey] <= TTL_SECONDS
                THEN after = before + 1 /\ windowStart'[TheKey] = windowStart[TheKey]
                ELSE after = 1 /\ windowStart'[TheKey] = now
      ]_vars

----------------------------------------------------------------------------
(* Claims about the frame of a click, under SpecBurst *)

\* C4: a step of a request that ends as a merchant-block offer, in 404 or in
\* 429 changes neither a coupon's stored counter nor a merchant's block arrays.
C4_NoStoredStateChange ==
    [][\A r \in Slots :
          ( /\ req'[r] # req[r]
            /\ \/ req'[r].source # "coupon"
               \/ req'[r].status \in {404, 429} )
          => coupons' = coupons /\ merchants' = merchants
      ]_vars

\* a request is answered 429 after earlier clicks have moved a stored counter
C4_Witness ==
    \E r \in Slots :
        /\ Done(r) /\ req[r].status = 429
        /\ coupons # CouponsInit
        /\ merchants = MerchantsInit

----------------------------------------------------------------------------
(* Claims about concurrent clicks, under SpecConc *)

AcceptedCoupon(r) == Done(r) /\ req[r].status = 200 /\ req[r].source = "coupon"

\* C5 (as claimed): once NSlots interleaved clicks on the same coupon have all
\* been answered, the stored counter is its initial value plus the number of
\* accepted clicks.
C5_NoLostIncrement ==
    (\A r \in Slots : Done(r) /\ req[r].offerId = ConcId)
        => coupons[ToNumber(ConcId)].click_count
              = CouponsInit[ToNumber(ConcId)].click_count
                + Cardinality({r \in Slots : AcceptedCoupon(r)})

\* the rpc itself loses nothing: the counter is its initial value plus the
\* number of increments that returned
IncrementsApplied ==
    coupons[ToNumber(ConcId)].click_count
        = CouponsInit[ToNumber(ConcId)].click_count
          + Cardinality({r \in Slots : req[r].increment = "ok"})

----------------------------------------------------------------------------
(* Claims about the redirect target, under SpecRedirect *)

\* the first of the candidates, in order, that is an absolute http(s) URL
RECURSIVE FirstHttp(_)
FirstHttp(cands) ==
    IF Len(cands) = 0 THEN NULL
    ELSE IF IsHttpUrl(cands[1]) THEN cands[1]
    ELSE FirstHttp(Tail(cands))

\* C6 (as claimed): the redirect is the first of offer redirect, affiliate URL
\* and website URL that is an http(s) URL, skipping candidates that are not,
\* and null only when none is.
C6_FirstHttpCandidate ==
    redirOut # <<"pending">> => redirOut = FirstHttp(redirIn)

----------------------------------------------------------------------------
(* Claims about the pagination navigator, under SpecNav *)

NavDone == navOut # NavPending

\* n is max(ceil(total / limit), 1): the least n >= 1 with n * limit >= total
IsPageCount(n, total, limit) ==
    /\ n >= 1
    /\ n * limit >= total
    /\ (n > 1 => (n - 1) * limit < total)

\* C11 as stated: for total >= 0, limit >= 1 and page >= 1 the navigator returns
\* totalPages = max(ceil(total / limit), 1), prev null exactly when page = 1,
\* next null exactly when page = totalPages, and for total = 0 one page with
\* prev and next both null.
C11_PrevNextLaw ==
    (NavDone /\ navIn.limit >= 1) =>
        /\ IsPageCount(navOut.totalPages, navIn.total, navIn.limit)
        /\ (navOut.prev = NULL <=> navIn.page = 1)
        /\ (navOut.next = NULL <=> navIn.page = navOut.totalPages)
        /\ (navIn.total = 0 =>
               navOut.totalPages = 1 /\ navOut.prev = NULL /\ navOut.next = NULL)

\* C11 amended: for total >= 0, limit >= 1 and page >= 1 the navigator returns
\* totalPages = max(ceil(total / limit), 1), prev null exactly when page = 1,
\* and next null exactly when page >= totalPages (the last page and every page
\* beyond it); for total = 0 there is one page and no next link, and prev is
\* null exactly on page 1.
C11_PrevNextLawAmended ==
    (NavDone /\ navIn.limit >= 1) =>
        /\ IsPageCount(navOut.totalPages, navIn.total, navIn.limit)
        /\ (navOut.prev = NULL <=> navIn.page = 1)
        /\ (navOut.next = NULL <=> navIn.page >= navOut.totalPages)
        /\ (navIn.total = 0 =>
               /\ navOut.totalPages = 1
               /\ navOut.next = NULL
               /\ (navOut.prev = NULL <=> navIn.page = 1))

\* a page beyond the last one has been computed: no next link, a prev link
C11_Witness ==
    /\ NavDone
    /\ navIn.limit >= 1
    /\ navIn.total = 0
    /\ navIn.page > navOut.totalPages
    /\ navOut.next = NULL
    /\ navOut.prev # NULL

----------------------------------------------------------------------------
(* Claims about the cache key builder, under SpecKey *)

KeyDone == keyOut # PENDING /\ keyOut # NULL

Recognized == {"page", "limit", "q", "category", "type", "sort", "locale", "status"}

\* the value a bag gives to a field
ValueOf(params, k) == IF In(k, params) THEN Get(params, k) ELSE ABSENT

\* the same properties with the same values, whatever the insertion order
SameBag(a, b) == \A k \in Recognized : ValueOf(a, k) = ValueOf(b, k)

\* the value as the builder reads it: page and limit by their integer (0 when not
\* a number), the other fields by their string, a missing or null one as ""
ReadAs(params, k) ==
    LET v == ValueOf(params, k) IN
    IF k \in {"page", "limit"}
    THEN (IF v = ABSENT THEN ABSENT ELSE ParseIntOr0(v))
    ELSE (IF v = ABSENT \/ v = NULL THEN <<>> ELSE v)

SameReading(a, b) == \A k \in Recognized : ReadAs(a, k) = ReadAs(b, k)

----------------------------------------------------------------------------
(* Claims about cursor pagination of the coupons list, under SpecCursor *)

Answered == 1..Len(listLog)

\* the ids of a page
IdsOf(e) == {e.data[k] : k \in 1..Len(e.data)}

\* request j asks for the page after the one request i was given, with the same
\* filters, over the same coupons
FollowsUp(i, j) ==
    /\ i < j
    /\ listLog[i].endpoint = "coupons" /\ listLog[j].endpoint = "coupons"
    /\ listLog[i].meta.next_cursor # NULL
    /\ listLog[j].q = [listLog[i].q EXCEPT !.cursor = listLog[i].meta.next_cursor]
    /\ listLog[j].table = listLog[i].table

\* C13: for an unchanged coupon set, the coupons list requested with the
\* next_cursor of page N returns rows disjoint from page N's rows, all with a
\* primary key strictly smaller than every row of page N.
C13_CursorMonotone ==
    \A i \in Answered : \A j \in Answered :
        FollowsUp(i, j) =>
            /\ IdsOf(listLog[i]) \cap IdsOf(listLog[j]) = {}
            /\ \A a \in IdsOf(listLog[i]) : \A b \in IdsOf(listLog[j]) : b < a

\* what the same request gives when no cursor is supplied, over the same rows
WithoutCursor(e) ==
    CouponsProducer(e.table, [e.q EXCEPT !.cursor = NULL], e.t, "none").value

\* C14: a coupons list request whose cursor cannot be decoded raises no error and
\* is answered with the rows and the total of the same request without a cursor.
C14_UndecodableCursorAsNone ==
    \A i \in Answered :
        (/\ listLog[i].endpoint = "coupons"
         /\ listLog[i].produced
         /\ listLog[i].q.cursor = GarbageCursor) =>
            /\ listLog[i].status = 200
            /\ listLog[i].data = WithoutCursor(listLog[i]).data
            /\ listLog[i].meta.total = WithoutCursor(listLog[i]).meta.total

----------------------------------------------------------------------------
(* Claims about the keyset pages, under SpecPages *)

\* response i was computed by the keyset branch of the coupons repository
CursorPage(i) ==
    /\ listLog[i].endpoint = "coupons"
    /\ listLog[i].produced
    /\ listLog[i].meta.mode = "cursor"

\* the matching rows at instant t that come after the page of response e
Further(e, t) ==
    {id \in Matching(e.table, e.q, t) :
        IF Len(e.data) > 0 THEN id < e.data[Len(e.data)]
        ELSE decodeCursorId(e.q.cursor) = 0 \/ id < decodeCursorId(e.q.cursor)}

\* page i is full and ends the matching rows, and page j is computed from its
\* next_cursor
ExactMultiple(i, j) ==
    /\ CursorPage(i) /\ CursorPage(j)
    /\ FollowsUp(i, j)
    /\ Len(listLog[i].data) = LimitOf(listLog[i].q.limit)
    /\ Further(listLog[i], listLog[j].t) = {}

\* C19: a keyset page has has_more = TRUE exactly when it holds limit rows;
\* has_more = FALSE means no matching row is left after it; when the matching
\* rows are an exact multiple of limit, the last non-empty page says has_more =
\* TRUE and the page after it is empty with has_more = FALSE and no next_cursor.
C19_HasMore ==
    /\ \A i \in Answered :
        CursorPage(i) =>
            /\ listLog[i].meta.has_more
                = (Len(listLog[i].data) = LimitOf(listLog[i].q.limit))
            /\ ~listLog[i].meta.has_more => Further(listLog[i], listLog[i].t) = {}
    /\ \A i \in Answered : \A j \in Answered :
        ExactMultiple(i, j) =>
            /\ listLog[i].meta.has_more
            /\ listLog[j].data = <<>>
            /\ ~listLog[j].meta.has_more
            /\ listLog[j].meta.next_cursor = NULL

\* a full last page, then the empty page its cursor leads to
C19_Witness ==
    \E i \in Answered : \E j \in Answered :
        /\ ExactMultiple(i, j)
        /\ listLog[i].meta.has_more
        /\ listLog[j].data = <<>>

\* a short page: fewer rows than limit, none left
C19_ShortPage ==
    \E i \in Answered :
        /\ CursorPage(i)
        /\ Len(listLog[i].data) > 0
        /\ Len(listLog[i].data) < LimitOf(listLog[i].q.limit)

----------------------------------------------------------------------------
(* Claims about the list endpoints over a failing store, under SpecDegrade *)

\* the store failed a query while response i was being produced
StoreFailed(i) == listLog[i].produced /\ listLog[i].failed # "none"

\* the store failed the query that reads the rows of response i; the coupons and
\* the blogs repositories give up on any failed query
RowsFailed(i) ==
    /\ StoreFailed(i)
    /\ listLog[i].endpoint = "stores" => listLog[i].failed \in {"main", "both"}

\* what a store that answers every query gives for the request of response i
Healthy(i) ==
    CASE listLog[i].endpoint = "coupons" ->
            CouponsProducer(listLog[i].table, listLog[i].q, listLog[i].t, "none").value
      [] listLog[i].endpoint = "stores" ->
            StoresProducer(merchants, listLog[i].q, "none").value
      [] OTHER -> BlogsProducer(BlogsInit, listLog[i].q, "none").value

RepeatsFailed(i, j) ==
    /\ i < j
    /\ listLog[i].endpoint \in {"coupons", "blogs"}
    /\ StoreFailed(i)
    /\ listLog[j].endpoint = listLog[i].endpoint
    /\ listLog[j].q = listLog[i].q
    /\ listLog[j].t < listLog[i].t + CACHE_TTL_PUBLIC

\* C16: a failed coupons or blogs list retrieval leaves its cache key absent, and
\* an identical request within the TTL, the store having recovered, runs the
\* producer again and returns the real rows.
C16_FailureNotCached ==
    /\ \A i \in Answered :
          (/\ i = Len(listLog) /\ StoreFailed(i)
           /\ listLog[i].endpoint \in {"coupons", "blogs"}) =>
              listLog[i].key \notin DOMAIN listCache
    /\ \A i \in Answered : \A j \in Answered :
          (RepeatsFailed(i, j) /\ listLog[j].failed = "none") =>
              /\ listLog[j].produced
              /\ listLog[j].data = Healthy(j).data

----------------------------------------------------------------------------
(* Claims about the lifetime of a cached list, under SpecTtl *)

\* response i was produced and cached, and no later response before j replaced
\* its entry
EntryOf(i, j) ==
    /\ i < j
    /\ listLog[i].produced
    /\ listLog[i].key = listLog[j].key
    /\ \A k \in Answered :
          (i < k /\ k < j /\ listLog[k].key = listLog[j].key) => ~listLog[k].produced

----------------------------------------------------------------------------
(* Claims about the capacity of the click rate table, under SpecEvict *)

\* the keys of a rate table
KeysOf(cache) == {cache[i].key : i \in 1..Len(cache)}

\* the step receives a click whose (ip, offer) key the full table does not hold
NewKeyOnFullTable ==
    /\ served' = served + 1
    /\ Len(req'[1].offerId) > 0
    /\ Len(rateCache) = RateCacheMax
    /\ RateKey(ClientIp, req'[1].offerId) \notin KeysOf(rateCache)

\* C18: the click rate table never holds more than its capacity; a new
\* (ip, offer) key inserted into a full table evicts the least recently used
\* entry, expired or not, and every other entry stays.
C18_CapacityEviction ==
    /\ [](Len(rateCache) <= RateCacheMax)
    /\ [][NewKeyOnFullTable =>
            /\ Len(rateCache') = RateCacheMax
            /\ KeysOf(rateCache') =
                  (KeysOf(rateCache) \ {rateCache[1].key})
                     \cup {RateKey(ClientIp, req'[1].offerId)}
            /\ \A i \in 2..Len(rateCache) : rateCache'[i - 1] = rateCache[i]
         ]_vars

\* a full table that lost a key whose window opened less than 60 s ago
C18_Witness ==
    /\ Len(rateCache) = RateCacheMax
    /\ \E key \in DOMAIN windowStart :
          /\ key \notin KeysOf(rateCache)
          /\ now - windowStart[key] < TTL_SECONDS

----------------------------------------------------------------------------
(* Claims about the subscribe limiter, under SpecSubscribe *)

\* the step answers a subscribe request of address ip
SubscribeFrom(ip) ==
    /\ ip \in DOMAIN subscribeRate'
    /\ ip \in DOMAIN subscribeRate => subscribeRate'[ip] # subscribeRate[ip]

\* the answer of the step is for ip and is not the limiter's refusal
Passes(ip) == subLog'[1].ip = ip /\ subLog'[1].status # 429

\* C20: per address, the first 10 subscribe requests of a window pass the
\* limiter and every further one is answered 429; the first request more than
\* 60 s after the window start restarts the counter at 1 with a new window
\* start; a request exactly 60 s after the window start is still in the old
\* window.
C20_SubscribeWindow ==
    [][\A ip \in DOMAIN subscribeRate' :
          SubscribeFrom(ip) =>
            IF \/ ip \notin DOMAIN subscribeRate
               \/ now * 1000 > subscribeRate[ip].firstTs + 60 * 1000
            THEN /\ subscribeRate'[ip] = [count |-> 1, firstTs |-> now * 1000]
                 /\ Passes(ip)
            ELSE /\ subscribeRate'[ip].firstTs = subscribeRate[ip].firstTs
                 /\ subscribeRate'[ip].count = subscribeRate[ip].count + 1
                 /\ subscribeRate'[ip].count <= 10 => Passes(ip)
                 /\ subscribeRate'[ip].count > 10 =>
                        subLog'[1].ip = ip /\ subLog'[1].status = 429
      ]_vars

\* the 11th request of a window, sent exactly 60 s after its start and refused
C20_Witness ==
    /\ subLog # <<>>
    /\ subLog[1].status = 429
    /\ subscribeRate[subLog[1].ip].count = 11
    /\ subLog[1].t = subscribeRate[subLog[1].ip].firstTs + 60 * 1000

\* a counter restarted by a request 61 s after the start of a full window
C20_Restarted ==
    /\ subLog # <<>>
    /\ subLog[1].status = 200
    /\ subscribeRate[subLog[1].ip] = [count |-> 1, firstTs |-> 61 * 1000]
    /\ subLog[1].t = 61 * 1000
    /\ subscriptions # <<>>

----------------------------------------------------------------------------
(* Claims about unresolved composite identifiers, under Spec *)

\* the blocks of merchant m, none when the merchant is not stored
BlocksOf(m, kind) ==
    IF m \notin DOMAIN merchants THEN <<>>
    ELSE IF kind = "all" THEN Combined(m)
    ELSE IF kind = "h2" THEN merchants[m].coupon_h2_blocks
    ELSE merchants[m].coupon_h3_blocks

\* a finished, not rate-limited request for `id` was answered 404
Unresolved(r, id) ==
    (Done(r) /\ req[r].offerId = id /\ req[r].status # 429) => req[r].status = 404

\* C21: a composite identifier whose index is outside the range of the block
\* sequence it addresses (trending: 1..|A|+|B|, h2/h3: 0..|arr|-1), or whose
\* merchant does not exist, is answered 404; trending-M-0 is one of them.
C21_OutOfRangeUnresolved ==
    \A r \in Slots, m \in MerchantIds, i \in Indexes :
        /\ (i < 1 \/ i > Len(BlocksOf(m, "all"))) => Unresolved(r, TrendingId(m, i))
        /\ i >= Len(BlocksOf(m, "h2")) => Unresolved(r, BlockId(H2, m, i))
        /\ i >= Len(BlocksOf(m, "h3")) => Unresolved(r, BlockId(H3, m, i))

\* C22: a store failure while the merchant row of a composite identifier is
\* fetched is answered 500, not 404.
C22_StoreFailureIs500 ==
    \A r \in Slots :
        (Done(r) /\ req[r].storeError) => req[r].status = 500

----------------------------------------------------------------------------
(* Claims about the offset pages of the coupons list, under SpecSort *)

\* two answers to the same offset query but for the page number, computed over
\* the same table at the same instant
SameListing(e, f) ==
    /\ e.endpoint = "coupons" /\ f.endpoint = "coupons"
    /\ Falsy(e.q.cursor) /\ Falsy(f.q.cursor)
    /\ e.q.sort = f.q.sort /\ e.q.type = f.q.type /\ e.q.status = f.q.status
    /\ e.q.limit = f.q.limit
    /\ e.table = f.table /\ e.t = f.t
    /\ e.status = 200 /\ f.status = 200

\* C23: in offset mode, under every sort key, pages p and p+1 of the same
\* listing have no row in common, and the pages of a listing that fits in two
\* pages hold, together, every matching row.
C23_OffsetPagesPartition ==
    \A i, j \in 1..Len(listLog) :
        LET e == listLog[i]
            f == listLog[j]
        IN  (SameListing(e, f) /\ f.q.page = e.q.page + 1)
               => /\ IdsOf(e) \cap IdsOf(f) = {}
                  /\ (e.q.page = 1 /\ e.meta.total <= 2 * e.q.limit)
                        => IdsOf(e) \cup IdsOf(f) = Matching(e.table, e.q, e.t)

----------------------------------------------------------------------------
(* Claims about the store and category filters, under SpecFilter *)

\* the merchants a store slug names, and those a category slug names
StoreOf(slug) == {m \in DOMAIN MerchantSlug : MerchantSlug[m] = slug}
CategoryOf(slug) ==
    {m \in DOMAIN MerchantCategoryNames :
        /\ slug \in DOMAIN MerchantCategories
        /\ MerchantCategories[slug] \in MerchantCategoryNames[m]}

\* C24: a coupons list computed for a request with a store filter holds only
\* coupons of that store, and one computed for a request with a category
\* filter only coupons of merchants of that category, by page number and by
\* cursor alike; a slug that names no store or no category, or a category
\* without merchants, gives no row.
C24_FiltersHold ==
    \A i \in 1..Len(listLog) :
        LET e == listLog[i] IN
        (e.endpoint = "coupons" /\ e.produced /\ e.status = 200)
            => \A id \in IdsOf(e) :
                  /\ SlugOf(e.q, "storeSlug") # <<>>
                        => e.table[id].merchant_id \in StoreOf(SlugOf(e.q, "storeSlug"))
                  /\ SlugOf(e.q, "categorySlug") # <<>>
                        => e.table[id].merchant_id
                              \in CategoryOf(SlugOf(e.q, "categorySlug"))

----------------------------------------------------------------------------
(* Claims about the audit insert, under SpecAudit *)

\* the step in which slot r answers its request
Answers(r) == req[r].pc # "done" /\ req'[r].pc = "done"

\* C25: the audit insert of a request is started in the very step that answers
\* it 200, and in no other step: once per request, never again after it was
\* written or has failed, after the increment of a canonical coupon returned or
\* threw, and not at all for a request answered 400, 404 or 429.
C25_OneAuditPerResolvedClick ==
    [][\A r \in Slots :
          /\ (audit[r] # "pending" /\ audit'[r] = "pending")
                <=> (Answers(r) /\ req'[r].status = 200)
          /\ (Answers(r) /\ req'[r].status = 200 /\ req'[r].source = "coupon")
                => req'[r].increment \in {"ok", "failed"}
          /\ (Answers(r) /\ req'[r].status \in {400, 404, 429})
                => audit'[r] = "none"
          /\ audit[r] \in {"written", "failed"}
                => audit'[r] \in {audit[r], "none"}
          /\ (audit[r] \in {"written", "failed"} /\ audit'[r] = "none")
                => req'[r].pc # req[r].pc \/ req'[r].offerId # req[r].offerId
                     \/ served' # served
      ]_vars

\* after a 429 on the same connection, a click on the coupon whose increment
\* threw is answered 200 and its audit insert is in flight
C25_Witness ==
    \E r \in Slots :
        /\ Done(r) /\ req[r].status = 200 /\ req[r].source = "coupon"
        /\ req[r].increment = "failed" /\ audit[r] = "pending"
        /\ served > MAX_REQUESTS_PER_WINDOW + 1

----------------------------------------------------------------------------
(* Claims about all-digit identifiers without a canonical coupon, under Spec *)

\* the first h2 block of a merchant row, else its first h3 block
FirstBlock(store) ==
    IF Len(store.coupon_h2_blocks) > 0 THEN store.coupon_h2_blocks[1]
    ELSE store.coupon_h3_blocks[1]

\* C26: an all-digit identifier for which the canonical lookup gave no coupon
\* is read as a plain merchant id; once the merchant row was fetched the click
\* is answered 200 with the first h2 block of that merchant, or its first h3
\* block when it has no h2 block, as a merchant-block offer and without any
\* counter increment, and 404 when the merchant does not exist or has no block.
C26_DigitsFallBackToMerchant ==
    \A r \in Slots :
        LET q == req[r]
            m == ToNumber(q.offerId)
        IN  (Done(r) /\ q.offerId \in DigitIds /\ q.lookup \in {"miss", "error"}
               /\ q.status # 429 /\ ~q.storeError)
            => /\ q.parsed.type = "merchant"
               /\ q.increment = "none"
               /\ IF m \in DOMAIN merchants /\ Combined(m) # <<>>
                  THEN /\ q.status = 200
                       /\ q.source = "merchant-block"
                       /\ q.block = FirstBlock(merchants[m])
                  ELSE q.status = 404

\* 042 is no coupon: the click is answered with the first h2 block of merchant
\* 42, while 7, whose lookup threw, got the only h3 block of merchant 7
C26_Witness ==
    \E r \in Slots :
        /\ Done(r) /\ req[r].status = 200 /\ req[r].source = "merchant-block"
        /\ \/ /\ req[r].offerId = <<"0","4","2">> /\ req[r].lookup = "miss"
              /\ req[r].block = merchants[42].coupon_h2_blocks[1]
           \/ /\ req[r].offerId = NumStr(7) /\ req[r].lookup = "error"
              /\ req[r].block = merchants[7].coupon_h3_blocks[1]

----------------------------------------------------------------------------
(* Identifiers emitted by the store detail (controllers/publicStores.js) *)

\* arr.map((b, idx) => ({ id: ..., raw: b })): the items built from a block
\* array, ids[idx + 1] being the identifier given to the 0-based position idx
ItemsOf(arr, ids) ==
    [i \in 1..Len(arr) |-> [id |-> ids[i], raw |-> arr[i]]]

\* trending offers numbered from 0
trendingOffersZeroBased(m, store) ==
    LET blocks == store.coupon_h2_blocks \o store.coupon_h3_blocks
    IN  ItemsOf(blocks, [i \in 1..Len(blocks) |-> TrendingId(m, i - 1)])

\* lines 352-378: one trending offer per block of h2 followed by h3, with the
\* id `trending-${store.id}-${idx + 1}`
trendingOffers(m, store) ==
    LET blocks == store.coupon_h2_blocks \o store.coupon_h3_blocks
    IN  ItemsOf(blocks, [i \in 1..Len(blocks) |-> TrendingId(m, (i - 1) + 1)])

\* lines 255-309: when the store has no coupons row to show (total === 0) its
\* h2 blocks, then its h3 blocks, are listed as offers `h2-${store.id}-${idx}`
\* and `h3-${store.id}-${idx}`; the rows of the coupons table carry no
\* synthetic identifier
couponsItems(m, store, total) ==
    LET h2 == store.coupon_h2_blocks
        h3 == store.coupon_h3_blocks
    IN  IF total = 0
        THEN ItemsOf(h2, [i \in 1..Len(h2) |-> BlockId(H2, m, i - 1)])
             \o ItemsOf(h3, [i \in 1..Len(h3) |-> BlockId(H3, m, i - 1)])
        ELSE <<>>

\* every synthetic offer the store detail of merchant m shows
Emitted(m, store) ==
    LET all == couponsItems(m, store, 0) \o trendingOffers(m, store)
    IN  {all[i] : i \in 1..Len(all)}

----------------------------------------------------------------------------
(* Claims about the round trip from the store detail to the click, under Spec *)

\* C27: every synthetic identifier the store detail emits for a merchant
\* (h2-M-idx, h3-M-idx, trending-M-(idx+1)) is resolved by the click endpoint,
\* once it fetched the same merchant row, to the block the identifier was
\* built from.
C27_EmittedIdsResolve ==
    \A r \in Slots, m \in StoredMerchants :
        \A item \in Emitted(m, merchants[m]) :
            (Done(r) /\ req[r].offerId = item.id /\ req[r].status # 429
               /\ ~req[r].storeError)
            => /\ req[r].status = 200
               /\ req[r].source = "merchant-block"
               /\ req[r].block = item.raw

\* the fifth trending offer of merchant 42 was clicked and resolved to its
\* third h3 block
C27_Witness ==
    \E r \in Slots :
        \E item \in Emitted(42, merchants[42]) :
            /\ item.id = TrendingId(42, 5)
            /\ item.raw = merchants[42].coupon_h3_blocks[3]
            /\ Done(r) /\ req[r].offerId = item.id /\ req[r].status = 200
            /\ req[r].block = item.raw

----------------------------------------------------------------------------
(* Claims about the requests that share a cached coupons list, under SpecFilter *)

\* the answer that was computed and cached for the key of answer i: the latest
\* earlier one the producer ran for
ProducedFor(i) ==
    CHOOSE j \in 1..(i - 1) :
        /\ listLog[j].key = listLog[i].key /\ listLog[j].produced
        /\ \A k \in (j + 1)..(i - 1) :
              ~(listLog[k].key = listLog[i].key /\ listLog[k].produced)

\* C28: a coupons list answered from the cache was computed for a request with
\* the same store filter, the same status and the same cursor.
C28_CacheRespectsFilters ==
    \A i \in 1..Len(listLog) :
        LET e == listLog[i] IN
        (e.endpoint = "coupons" /\ ~e.produced)
            => LET f == listLog[ProducedFor(i)] IN
               /\ SlugOf(f.q, "storeSlug") = SlugOf(e.q, "storeSlug")
               /\ f.q.status = e.q.status
               /\ f.q.cursor = e.q.cursor

----------------------------------------------------------------------------
(* Claims about a client walking the coupons list by cursor, under SpecCursor *)

\* the rows a walk that reached the end of page e still has to deliver
Remaining(e) ==
    {id \in Matching(e.table, e.q, e.t) : \A k \in 1..Len(e.data) : id < e.data[k]}

\* C29: over an unchanged coupon set, a client that starts from a request with
\* a cursor and follows next_cursor is given, page after page, the matching
\* rows with a smaller key in strictly descending order and each once: the
\* page after page N holds the next rows below the last row of page N, and its
\* next_cursor is another one, so that the walk comes to an end.
C29_CursorWalk ==
    \A i \in Answered : \A j \in Answered :
        (FollowsUp(i, j) /\ ~Falsy(listLog[i].q.cursor) /\ listLog[i].data # <<>>)
            => LET e == listLog[i]
                   f == listLog[j]
                   walk == e.data \o f.data
               IN  /\ \A a, b \in 1..Len(walk) : a < b => walk[a] > walk[b]
                   /\ f.data = Range(Ordered(e.table, Remaining(e), "latest"),
                                     0, LimitOf(e.q.limit) - 1)
                   /\ f.meta.next_cursor # e.meta.next_cursor

----------------------------------------------------------------------------
(* Claims about the per-pair click limit under interleaved traffic, under
   SpecFlood, where every request arrives at the same instant *)

\* C30: whatever other traffic is interleaved, and also when other pairs fill
\* the rate table and force evictions, no more than 12 clicks of one (address,
\* identifier) pair are let through within one 60-second window.
C30_PairLimitUnderEviction ==
    \A key \in DOMAIN admitted : admitted[key] <= MAX_REQUESTS_PER_WINDOW

====
